---- MODULE Spec2Model ----
(***************************************************************************)
(* Colour extraction (colorSampler) and font metrics estimation            *)
(* (fontEstimator) of the business-card look-alike editor, and the        *)
(* processImage pipeline of its page (page.tsx) that calls them.           *)
(*                                                                         *)
(* Numbers.  The code computes in IEEE doubles; the model computes in      *)
(* integers:                                                               *)
(*   - channel values are 0..255, or NaN for the `undefined` that a read   *)
(*     outside the pixel array yields (every arithmetic use of undefined   *)
(*     gives NaN, and every comparison with NaN is false);                 *)
(*   - CIELAB coordinates and deltaE are in hundredths (LabScale);         *)
(*   - font sizes are in units of 1/FontScale pixel, which holds every     *)
(*     value of the 20-step bisection of [1,200] and 0.4h, 0.85h, 1.5h     *)
(*     exactly.                                                            *)
(***************************************************************************)
EXTENDS Integers, Sequences, FiniteSets, TLC

VARIABLES
  imageData,   \* ImageData {width, height, data}: the decoded pixel buffer
  bbox,        \* the bounding box {x0, y0, x1, y1} of the call
  textBboxes,  \* the exclusion boxes given to sampleCardBackgroundColor
  colors,      \* the RGB[] given to medoidColor
  text,        \* estimateFontSize: the text, a sequence of characters
  fontFamily,  \* estimateFontSize: the font family
  fontWeight,  \* estimateFontSize: the font weight
  ctx,         \* the host's 2D context (the measurement oracle), or null
  words,       \* inferFontWeight / inferFontFamily: the TesseractWord[], as
               \* [items |-> the words], or null when it is missing
  pc,          \* "start", then the name of the function that has returned
  ret,         \* the value the function returned
  reads,       \* the pixel coordinates the call passed to getPixel
  home,        \* the React state of Home: step, imageUrl, progress, detectedTexts
  run,         \* the invocation of processImage: its position, its argument,
               \* the OCR result it awaits, and the library calls it has made
  log,         \* a caller that samples one buffer several times: the calls
               \* made so far, each with its arguments and its result
  readers,     \* ImageUploader: the FileReaders that are still reading, each
               \* with the data URL it will give to reader.onload
  runs,        \* the invocations of processImage with overlap: for each its
               \* argument, its position, the OCR worker of its recognizeCard
               \* and the state of the promise recognizeCard returned
  textsFrom,   \* the data URL of the invocation whose setDetectedTexts wrote
               \* the current detectedTexts ("" while it is the initial [])
  editor       \* CardEditor: canvasRef, fabricRef, the runs of its effect
               \* and the Fabric canvases created so far

vars == <<imageData, bbox, textBboxes, colors, text, fontFamily, fontWeight,
          ctx, words, pc, ret, reads, home, run, log,
          readers, runs, textsFrom, editor>>

----------------------------------------------------------------------------
(* Bounds of the model *)

MaxDim == 9        \* image width and height are at most MaxDim
MaxColors == 4     \* SpecMedoid draws sequences of at most MaxColors colours
MaxText == 4       \* texts have at most MaxText characters
MaxBox == 6        \* estimateFontSize boxes are at most MaxBox wide and high
MaxWords == 3      \* word lists have at most MaxWords words
MaxLines == 2      \* the OCR result has at most MaxLines lines
MaxCalls == 3      \* a caller makes at most MaxCalls calls on one buffer
MaxUploads == 2    \* at most MaxUploads files are given to the uploader
MaxEffects == 3    \* the effect of CardEditor runs at most MaxEffects times

----------------------------------------------------------------------------
(* Numbers *)

NaN == -999999999
Infinity == 2147483647
LabScale == 10 * 10

Max(a, b) == IF a >= b THEN a ELSE b
Min(a, b) == IF a <= b THEN a ELSE b

\* a < b on doubles: false when either side is NaN
Lt(a, b) == a # NaN /\ b # NaN /\ a < b
\* a + b on doubles
Add(a, b) == IF a = NaN \/ b = NaN THEN NaN ELSE a + b

RECURSIVE SqrtIter(_, _, _)
SqrtIter(n, lo, hi) ==
  IF hi - lo <= 1 THEN lo
  ELSE LET mid == (lo + hi) \div 2
       IN IF mid * mid <= n THEN SqrtIter(n, mid, hi) ELSE SqrtIter(n, lo, mid)

\* Math.sqrt, rounded down to the unit
Sqrt(n) == SqrtIter(n, 0, 46341)

----------------------------------------------------------------------------
(* Colours *)

Black == [r |-> 0, g |-> 0, b |-> 0]
Dark == [r |-> 40, g |-> 40, b |-> 40]
Gray == [r |-> 128, g |-> 128, b |-> 128]
White == [r |-> 255, g |-> 255, b |-> 255]
Red == [r |-> 200, g |-> 30, b |-> 30]

\* the colours the pixels of the model's images take
Palette == {Black, Dark, Gray, White, Red}
Grays == {Black, Dark, Gray, White}

\* what getPixel returns for an index outside the array
UndefinedPixel == [r |-> NaN, g |-> NaN, b |-> NaN]

null == [null |-> TRUE]

\* rgbToLab: sRGB -> linear -> XYZ (D65) -> CIELAB, in hundredths.  The
\* values are those of the code's formula on the palette; a NaN channel
\* makes every coordinate NaN.
rgbToLab(rgb) ==
  CASE rgb = Black -> [l |-> 0, a |-> 0, b |-> 0]
    [] rgb = Dark -> [l |-> 1611, a |-> 0, b |-> 0]
    [] rgb = Gray -> [l |-> 5359, a |-> 0, b |-> 0]
    [] rgb = White -> [l |-> 10000, a |-> 0, b |-> 0]
    [] rgb = Red -> [l |-> 4322, a |-> 6304, b |-> 4522]
    [] rgb = UndefinedPixel -> [l |-> NaN, a |-> NaN, b |-> NaN]

\* CIE76 deltaE, in hundredths
DeltaEOf(lab1, lab2) ==
  LET dl == lab1.l - lab2.l
      da == lab1.a - lab2.a
      db == lab1.b - lab2.b
  IN Sqrt(dl * dl + da * da + db * db)

\* DeltaEOf on the palette, evaluated once
DeltaETable ==
  [p \in {rgbToLab(c) : c \in Palette} \X {rgbToLab(c) : c \in Palette} |->
     DeltaEOf(p[1], p[2])]

deltaE(lab1, lab2) ==
  IF lab1.l = NaN \/ lab2.l = NaN THEN NaN ELSE DeltaETable[<<lab1, lab2>>]

\* the luminance test turned round (luminance(c) <= 128)
LuminanceAbove128Reversed(c) ==
  c.r # NaN /\ 299 * c.r + 587 * c.g + 114 * c.b <= 128 * 1000

\* luminance(c) > 128, with the weights in thousandths
LuminanceAbove128(c) ==
  c.r # NaN /\ 299 * c.r + 587 * c.g + 114 * c.b > 128 * 1000

HexDigits == <<"0", "1", "2", "3", "4", "5", "6", "7", "8", "9",
               "a", "b", "c", "d", "e", "f">>

\* Number.prototype.toString(16) of an integer 0..255, or of NaN
toString16(n) ==
  IF n = NaN THEN <<"N", "a", "N">>
  ELSE IF n < 16 THEN <<HexDigits[n + 1]>>
  ELSE <<HexDigits[(n \div 16) + 1], HexDigits[(n % 16) + 1]>>

padStart2(s) == IF Len(s) < 2 THEN <<"0">> \o s ELSE s

\* toHex without its padStart(2, "0")
toHexUnpadded(v) == toString16(IF v = NaN THEN NaN ELSE Max(0, Min(255, v)))

\* Math.max(0, Math.min(255, Math.round(v))): NaN stays NaN
toHex(v) == padStart2(toString16(IF v = NaN THEN NaN ELSE Max(0, Min(255, v))))

\* a string is the sequence of its characters
rgbToHex(c) == <<"#">> \o toHex(c.r) \o toHex(c.g) \o toHex(c.b)

At(data, i) == IF i \in DOMAIN data THEN data[i] ELSE NaN

getPixel(data, width, x, y) ==
  LET i == (y * width + x) * 4
  IN [r |-> At(data, i), g |-> At(data, i + 1), b |-> At(data, i + 2)]

----------------------------------------------------------------------------
(* Medoid *)

maxSamples == 200

\* The loops over long arrays are evaluated by halving the index range, which
\* gives the value of the left-to-right loop (the first strict minimum; the
\* kept elements in order).

\* how many times each Lab value occurs in labs
Histogram(labs) ==
  [v \in {labs[j] : j \in 1..Len(labs)} |->
     Cardinality({j \in 1..Len(labs) : labs[j] = v})]

RECURSIVE SumOver(_, _, _, _)
\* the sum over the Lab values v of `vals` of deltaE(lab, v), each counted as
\* often as it occurs among the other elements
SumOver(lab, hist, self, vals) ==
  IF vals = {} THEN 0
  ELSE LET v == CHOOSE w \in vals : TRUE
           n == hist[v] - (IF v = self THEN 1 ELSE 0)
           rest == SumOver(lab, hist, self, vals \ {v})
       IN IF n = 0 THEN rest
          ELSE IF deltaE(lab, v) = NaN THEN NaN
          ELSE Add(n * deltaE(lab, v), rest)

\* the inner loop of medoidColor: the sum of deltaE(labs[i], labs[j]) over
\* the j # i, the equal terms taken together
SumDeltaE(labs, hist, i) == SumOver(labs[i], hist, labs[i], DOMAIN hist)

\* the update with the comparison turned round (sum > bestSum)
BetterReversed(best, cand) == IF Lt(best.sum, cand.sum) THEN cand ELSE best

\* if (sum < bestSum) { bestSum = sum; bestIdx = i }
Better(best, cand) == IF Lt(cand.sum, best.sum) THEN cand ELSE best

RECURSIVE MedoidScan(_, _, _, _, _)
\* the outer loop of medoidColor over the candidates lo..hi (lo <= hi),
\* entered with `start`: a candidate replaces the best one only when its sum
\* is strictly smaller
MedoidScan(labs, hist, lo, hi, start) ==
  IF lo = hi THEN Better(start, [idx |-> lo, sum |-> SumDeltaE(labs, hist, lo)])
  ELSE LET mid == (lo + hi) \div 2
       IN Better(MedoidScan(labs, hist, lo, mid, start),
                 MedoidScan(labs, hist, mid + 1, hi, start))

\* The code computes the index as Math.floor(i * step) with step =
\* length / maxSamples, in IEEE doubles.  The product differs from the exact
\* i * length / 200 by far less than 1/200, so the floor is that of the exact
\* quotient unless the quotient is a whole number and the product comes out
\* just below it.  These are the (length, i) with length in 201..625 (the
\* grid of sampleCardBackgroundColor has 625 points) and i in 0..199 for
\* which it does (for 205 and 120: 1.025 * 120 = 122.99999999999999).
RoundedBelow ==
  {<<205, 120>>, <<226, 100>>, <<228, 50>>, <<228, 100>>, <<228, 150>>,
   <<230, 100>>, <<230, 180>>, <<232, 25>>, <<232, 50>>, <<232, 100>>,
   <<276, 150>>, <<280, 45>>, <<280, 85>>, <<280, 90>>, <<280, 165>>,
   <<280, 170>>, <<280, 175>>, <<280, 180>>, <<328, 75>>, <<328, 150>>,
   <<402, 100>>, <<406, 100>>, <<410, 60>>, <<410, 100>>, <<410, 120>>,
   <<410, 180>>, <<414, 100>>, <<452, 50>>, <<452, 100>>, <<452, 150>>,
   <<456, 25>>, <<456, 50>>, <<456, 75>>, <<456, 100>>, <<456, 150>>,
   <<456, 175>>, <<460, 50>>, <<460, 90>>, <<460, 100>>, <<460, 110>>,
   <<460, 170>>, <<460, 180>>, <<460, 190>>, <<464, 25>>, <<464, 50>>,
   <<464, 100>>, <<502, 100>>, <<506, 100>>, <<510, 100>>, <<510, 180>>,
   <<552, 75>>, <<552, 150>>, <<552, 175>>, <<556, 150>>, <<560, 45>>,
   <<560, 85>>, <<560, 90>>, <<560, 165>>, <<560, 170>>, <<560, 175>>,
   <<560, 180>>}

\* the subsample with the index computed in exact arithmetic:
\* floor(i * length / maxSamples)
SubsampleExact(cs) ==
  IF Len(cs) > maxSamples
  THEN [i \in 1..maxSamples |-> cs[(((i - 1) * Len(cs)) \div maxSamples) + 1]]
  ELSE cs

\* Math.floor(i * step), for step = length / maxSamples
SubsampleIndex(length, i) ==
  ((i * length) \div maxSamples) - (IF <<length, i>> \in RoundedBelow THEN 1 ELSE 0)

\* the subsample of medoidColor: colors[Math.floor(i * step)], i from 0
Subsample(cs) ==
  IF Len(cs) > maxSamples
  THEN [i \in 1..maxSamples |-> cs[SubsampleIndex(Len(cs), i - 1) + 1]]
  ELSE cs

medoidColor(cs) ==
  IF Len(cs) = 0 THEN [r |-> 255, g |-> 255, b |-> 255]
  ELSE IF Len(cs) = 1 THEN cs[1]
  ELSE LET samples == Subsample(cs)
           labs == [i \in 1..Len(samples) |-> rgbToLab(samples[i])]
           \* let bestIdx = 0; let bestSum = Infinity
           start == [idx |-> 1, sum |-> Infinity]
       IN samples[MedoidScan(labs, Histogram(labs), 1, Len(labs), start).idx]

----------------------------------------------------------------------------
(* Border and interior sampling *)

margin == 2
step == 2
DELTA_E_THRESHOLD == 20

\* the values of  for (v = from; v < to; v += by)
Stride(from, to, by) ==
  LET n == IF to > from THEN (to - from + by - 1) \div by ELSE 0
  IN [k \in 1..n |-> from + by * (k - 1)]

\* the x and the y of the clamped loops over a box
ClampedXs(img, box, by) == Stride(Max(0, box.x0), Min(img.width, box.x1), by)
ClampedYs(img, box, by) == Stride(Max(0, box.y0), Min(img.height, box.y1), by)

\* the coordinates sampleBorderColor passes to getPixel, in order:
\* top edge, bottom edge, left edge, right edge
BorderCoords(img, box) ==
  LET xs == ClampedXs(img, box, 2)
      ys == ClampedYs(img, box, 2)
      topY == Max(0, box.y0 - margin)
      botY == Min(img.height - 1, box.y1 + margin)
      leftX == Max(0, box.x0 - margin)
      rightX == Min(img.width - 1, box.x1 + margin)
  IN [k \in 1..Len(xs) |-> [x |-> xs[k], y |-> topY]]
     \o [k \in 1..Len(xs) |-> [x |-> xs[k], y |-> botY]]
     \o [k \in 1..Len(ys) |-> [x |-> leftX, y |-> ys[k]]]
     \o [k \in 1..Len(ys) |-> [x |-> rightX, y |-> ys[k]]]

PixelsAt(img, coords) ==
  [k \in 1..Len(coords) |-> getPixel(img.data, img.width, coords[k].x, coords[k].y)]

sampleBorderColor(img, box) ==
  LET cs == PixelsAt(img, BorderCoords(img, box))
  IN IF Len(cs) = 0 THEN null ELSE medoidColor(cs)

\* the coordinates of the interior loop (rows outside, columns inside)
InteriorCoords(img, box) ==
  LET xs == ClampedXs(img, box, step)
      ys == ClampedYs(img, box, step)
  IN [k \in 1..(Len(xs) * Len(ys)) |->
        [x |-> xs[((k - 1) % Len(xs)) + 1], y |-> ys[((k - 1) \div Len(xs)) + 1]]]

\* the classification with the comparison turned round (dist > threshold)
IsBackgroundReversed(dist) == Lt(DELTA_E_THRESHOLD * LabScale, dist)

\* the classification with the threshold of the card sampler (dist < 15)
IsBackgroundBelow15(dist) == Lt(dist, 15 * LabScale)

\* dist < DELTA_E_THRESHOLD
IsBackground(dist) == Lt(dist, DELTA_E_THRESHOLD * LabScale)

RECURSIVE Farthest(_, _, _, _, _)
\* the farthest-pixel tracking of the interior loop, from sample k on
Farthest(pixels, dists, k, farthestPixel, farthestDist) ==
  IF k > Len(pixels) THEN [pixel |-> farthestPixel, dist |-> farthestDist]
  ELSE IF Lt(farthestDist, dists[k])
       THEN Farthest(pixels, dists, k + 1, pixels[k], dists[k])
       ELSE Farthest(pixels, dists, k + 1, farthestPixel, farthestDist)

\* the indices of the interior samples put in bgCluster
BgIndices(dists) == {k \in 1..Len(dists) : IsBackground(dists[k])}

RECURSIVE Pick(_, _, _, _)
\* the elements of seq at the indices of idx within lo..hi, in order
Pick(seq, idx, lo, hi) ==
  IF lo > hi THEN <<>>
  ELSE IF lo = hi THEN (IF lo \in idx THEN <<seq[lo]>> ELSE <<>>)
  ELSE LET mid == (lo + hi) \div 2
       IN Pick(seq, idx, lo, mid) \o Pick(seq, idx, mid + 1, hi)

FallbackColors == [textColor |-> <<"#", "0", "0", "0", "0", "0", "0">>,
                   bgColor |-> <<"#", "f", "f", "f", "f", "f", "f">>]

\* the interior loop: the samples in order, their deltaE to the border
\* background, the two clusters and the farthest pixel at the end of the loop
InteriorSamples(img, box, borderBg) ==
  LET borderBgLab == rgbToLab(borderBg)
      pixels == PixelsAt(img, InteriorCoords(img, box))
      dists == [k \in 1..Len(pixels) |-> deltaE(borderBgLab, rgbToLab(pixels[k]))]
      bgIdx == BgIndices(dists)
  IN [pixels |-> pixels,
      dists |-> dists,
      bgCluster |-> Pick(pixels, bgIdx, 1, Len(pixels)),
      textCluster |-> Pick(pixels, (1..Len(pixels)) \ bgIdx, 1, Len(pixels)),
      farthest |-> Farthest(pixels, dists, 1, null, 0)]

sampleTextAndBgColor(img, box) ==
  LET borderBg == sampleBorderColor(img, box)
  IN IF borderBg = null THEN FallbackColors
     ELSE
       LET loop == InteriorSamples(img, box, borderBg)
           bgCluster == loop.bgCluster
           textCluster == loop.textCluster
           far == loop.farthest
           bgColor == rgbToHex(IF Len(bgCluster) > 0 THEN medoidColor(bgCluster)
                               ELSE borderBg)
           textColor ==
             IF Len(textCluster) >= 3 THEN rgbToHex(medoidColor(textCluster))
             ELSE IF far.pixel # null /\ Lt(0, far.dist) THEN rgbToHex(far.pixel)
             ELSE IF LuminanceAbove128(borderBg)
                  THEN <<"#", "0", "0", "0", "0", "0", "0">>
                  ELSE <<"#", "f", "f", "f", "f", "f", "f">>
       IN [textColor |-> textColor, bgColor |-> bgColor]

\* the coordinates one call of sampleTextAndBgColor passes to getPixel
TextAndBgReads(img, box) ==
  LET border == BorderCoords(img, box)
  IN IF Len(border) = 0 THEN {}
     ELSE {border[k] : k \in 1..Len(border)}
          \cup {InteriorCoords(img, box)[k] : k \in 1..Len(InteriorCoords(img, box))}

----------------------------------------------------------------------------
(* Card background *)

gridSize == 25
OUTLIER_THRESHOLD == 15

\* the grid over the whole image, with no margin
NoMargin(size) == 0

\* Math.floor(size * 0.05)
MarginOf(size) == size \div 20

\* margin + Math.floor(((g + 0.5) / gridSize) * inner)
GridPoint(g, size) ==
  MarginOf(size) + (((2 * g + 1) * (size - MarginOf(size) * 2)) \div (2 * gridSize))

\* x >= b.x0 && x <= b.x1 && y >= b.y0 && y <= b.y1 for some b
InsideBbox(boxes, x, y) ==
  \E k \in 1..Len(boxes) :
    x >= boxes[k].x0 /\ x <= boxes[k].x1 /\ y >= boxes[k].y0 /\ y <= boxes[k].y1

\* the grid point of the k-th iteration, k = gy * gridSize + gx + 1
GridCoord(img, k) ==
  [x |-> GridPoint((k - 1) % gridSize, img.width),
   y |-> GridPoint((k - 1) \div gridSize, img.height)]

\* the grid points that are sampled: inside the image and inside no box
GridKept(img, boxes) ==
  {k \in 1..(gridSize * gridSize) :
     LET c == GridCoord(img, k)
     IN /\ ~(c.x < 0 \/ c.x >= img.width \/ c.y < 0 \/ c.y >= img.height)
        /\ ~InsideBbox(boxes, c.x, c.y)}

\* the coordinates sampleCardBackgroundColor passes to getPixel, in order
GridCoords(img, boxes) ==
  Pick([k \in 1..(gridSize * gridSize) |-> GridCoord(img, k)], GridKept(img, boxes),
       1, gridSize * gridSize)

RECURSIVE SumChannel(_, _, _, _, _)
\* the sum of channel ch over the colours at the indices of idx within lo..hi
SumChannel(cs, idx, ch, lo, hi) ==
  IF lo > hi THEN 0
  ELSE IF lo = hi THEN (IF lo \in idx THEN cs[lo][ch] ELSE 0)
  ELSE LET mid == (lo + hi) \div 2
       IN SumChannel(cs, idx, ch, lo, mid) + SumChannel(cs, idx, ch, mid + 1, hi)

\* Math.round(sum / count)
RoundDiv(sum, count) == (2 * sum + count) \div (2 * count)

HexWhite == <<"#", "f", "f", "f", "f", "f", "f">>

\* every sample is averaged, however far from the medoid
IsNearCenterAlways(centerLab, c) == TRUE

\* deltaE(centerLab, rgbToLab(c)) < OUTLIER_THRESHOLD
IsNearCenter(centerLab, c) ==
  Lt(deltaE(centerLab, rgbToLab(c)), OUTLIER_THRESHOLD * LabScale)

sampleCardBackgroundColor(img, boxes) ==
  LET cs == PixelsAt(img, GridCoords(img, boxes))
  IN IF Len(cs) = 0 THEN HexWhite
     ELSE
       LET center == medoidColor(cs)
           centerLab == rgbToLab(center)
           near == {k \in 1..Len(cs) : IsNearCenter(centerLab, cs[k])}
           count == Cardinality(near)
       IN IF count = 0 THEN rgbToHex(center)
          ELSE rgbToHex([r |-> RoundDiv(SumChannel(cs, near, "r", 1, Len(cs)), count),
                         g |-> RoundDiv(SumChannel(cs, near, "g", 1, Len(cs)), count),
                         b |-> RoundDiv(SumChannel(cs, near, "b", 1, Len(cs)), count)])

----------------------------------------------------------------------------
(* Font metrics estimator *)

\* one pixel of font size; 5 * 2^21
FontScale == 5 * 2097152

probeSize == 100

FontWeights == {"normal", "bold"}
FontFamilies == {"Noto Sans JP", "monospace"}

\* String.prototype.trim on a sequence of characters
RECURSIVE TrimStart(_)
TrimStart(t) == IF Len(t) > 0 /\ Head(t) = " " THEN TrimStart(Tail(t)) ELSE t

RECURSIVE TrimEnd(_)
TrimEnd(t) ==
  IF Len(t) > 0 /\ t[Len(t)] = " " THEN TrimEnd(SubSeq(t, 1, Len(t) - 1)) ELSE t

trim(t) == TrimEnd(TrimStart(t))

\* ctx.measureText(text) with ctx.font = `${weight} ${size}px ${family}`: the
\* answer of the host's oracle c.  The advance of a character is
\* c.advance[weight, family] tenths of the font size; the width grows with the
\* size ("proportional"), shrinks with it ("shrinking") or is 0 ("zero");
\* ascent and descent are c.ascent and c.descent hundredths of the size.
measureText(c, weight, size, family, t) ==
  LET perSize == Len(t) * c.advance[<<weight, family>>]
  IN [width |-> CASE c.kind = "proportional" -> (size \div 10) * perSize
                  [] c.kind = "shrinking" -> ((200 * FontScale - size) \div 10) * perSize
                  [] OTHER -> 0,
      actualBoundingBoxAscent |-> (size \div FontScale) * c.ascent,
      actualBoundingBoxDescent |-> (size \div FontScale) * c.descent]

\* the test of the bisection turned round (measured > targetWidth)
FitsBelowReversed(measured, targetWidth) == measured > targetWidth

\* measured < targetWidth
FitsBelow(measured, targetWidth) == measured < targetWidth

RECURSIVE Bisect(_, _, _, _, _, _, _)
\* the loop of fitByWidth from iteration i on; (lo + hi) / 2 is taken as
\* lo + (hi - lo) / 2, the same number
Bisect(c, t, targetWidth, family, weight, i, range) ==
  IF i >= 20 THEN range
  ELSE LET mid == range.lo + (range.hi - range.lo) \div 2
           measured == measureText(c, weight, mid, family, t).width
       IN IF FitsBelow(measured, targetWidth)
          THEN Bisect(c, t, targetWidth, family, weight, i + 1, [lo |-> mid, hi |-> range.hi])
          ELSE Bisect(c, t, targetWidth, family, weight, i + 1, [lo |-> range.lo, hi |-> mid])

\* targetWidth is in pixels; sizes and measured widths are in 1/FontScale
fitByWidth(c, t, targetWidth, family, weight) ==
  LET range == Bisect(c, t, targetWidth * FontScale, family, weight, 0,
                      [lo |-> 1 * FontScale, hi |-> 200 * FontScale])
  IN range.lo + (range.hi - range.lo) \div 2

\* fitByHeight that answers the fixed default 16 when the rendered height
\* is <= 0
fitByHeightDefault16(c, t, targetHeight, family, weight) ==
  LET metrics == measureText(c, weight, probeSize * FontScale, family, t)
      renderedHeight == (metrics.actualBoundingBoxAscent
                         + metrics.actualBoundingBoxDescent) \div probeSize
      scaled == targetHeight * probeSize
  IN IF renderedHeight <= 0 THEN 16 * FontScale
     ELSE (scaled \div renderedHeight) * FontScale
          + ((scaled % renderedHeight) * FontScale) \div renderedHeight

\* (targetHeight / renderedHeight) * probeSize, rounded down to 1/FontScale
fitByHeight(c, t, targetHeight, family, weight) ==
  LET metrics == measureText(c, weight, probeSize * FontScale, family, t)
      renderedHeight == (metrics.actualBoundingBoxAscent
                         + metrics.actualBoundingBoxDescent) \div probeSize
      scaled == targetHeight * probeSize
  IN IF renderedHeight <= 0 THEN targetHeight * (FontScale \div 20) * 17
     ELSE (scaled \div renderedHeight) * FontScale
          + ((scaled % renderedHeight) * FontScale) \div renderedHeight

\* the clamp without its upper limit
ClampSizeBelowOnly(bboxHeight, estimatedSize) ==
  Max(bboxHeight * (FontScale \div 5) * 2, estimatedSize)

\* Math.max(bboxHeight * 0.4, Math.min(bboxHeight * 1.5, estimatedSize))
ClampSize(bboxHeight, estimatedSize) ==
  LET minSize == bboxHeight * (FontScale \div 5) * 2
      maxSize == bboxHeight * (FontScale \div 2) * 3
  IN Max(minSize, Min(maxSize, estimatedSize))

\* c is what canvas.getContext("2d") gives: the oracle, or null
estimateFontSize(t, box, family, weight, c) ==
  LET bboxWidth == box.x1 - box.x0
      bboxHeight == box.y1 - box.y0
      trimmed == trim(t)
  IN IF bboxHeight <= 0 THEN 16 * FontScale
     ELSE IF c = null THEN bboxHeight * (FontScale \div 20) * 17
     ELSE IF Len(trimmed) = 0 THEN bboxHeight * (FontScale \div 20) * 17
     ELSE ClampSize(bboxHeight,
                    IF Len(trimmed) >= 3 /\ bboxWidth > 0
                    THEN fitByWidth(c, trimmed, bboxWidth, family, weight)
                    ELSE fitByHeight(c, trimmed, bboxHeight, family, weight))

RECURSIVE CountBold(_, _)
\* the loop of inferFontWeight from word k on
CountBold(items, k) ==
  IF k > Len(items) THEN 0
  ELSE (IF items[k].is_bold THEN 1 ELSE 0) + CountBold(items, k + 1)

\* the vote with a tie counted as a majority (boldCount >= words.length / 2)
IsMajorityOrTie(boldCount, length) == 2 * boldCount >= length

\* boldCount > words.length / 2
IsMajority(boldCount, length) == 2 * boldCount > length

inferFontWeight(ws) ==
  IF ws = null \/ Len(ws.items) = 0 THEN "normal"
  ELSE IF IsMajority(CountBold(ws.items, 1), Len(ws.items)) THEN "bold" ELSE "normal"

RECURSIVE CountFamilyByFlag(_, _, _)
\* the counters taken from the flags alone: a word flagged monospace and
\* serif is counted in both
CountFamilyByFlag(items, which, k) ==
  IF k > Len(items) THEN 0
  ELSE LET w == items[k]
           counted == CASE which = "monospace" -> w.is_monospace
                        [] which = "serif" -> w.is_serif
                        [] OTHER -> ~w.is_monospace /\ ~w.is_serif
       IN (IF counted THEN 1 ELSE 0) + CountFamilyByFlag(items, which, k + 1)

RECURSIVE CountFamily(_, _, _)
\* the loop of inferFontFamily from word k on, for one of the three counters
CountFamily(items, which, k) ==
  IF k > Len(items) THEN 0
  ELSE LET w == items[k]
           counted == IF w.is_monospace THEN "monospace"
                      ELSE IF w.is_serif THEN "serif" ELSE "sansSerif"
       IN (IF counted = which THEN 1 ELSE 0) + CountFamily(items, which, k + 1)

inferFontFamily(ws) ==
  IF ws = null \/ Len(ws.items) = 0 THEN "Noto Sans JP"
  ELSE LET monospace == CountFamily(ws.items, "monospace", 1)
           serif == CountFamily(ws.items, "serif", 1)
           sansSerif == CountFamily(ws.items, "sansSerif", 1)
       IN IF monospace >= serif /\ monospace >= sansSerif THEN "monospace"
          ELSE IF serif > sansSerif THEN "Noto Serif JP"
          ELSE "Noto Sans JP"

----------------------------------------------------------------------------
(* Inputs *)

\* useState: step "upload", imageUrl "", progress 0, detectedTexts []
InitialHome == [step |-> "upload", imageUrl |-> "", progress |-> 0,
                detectedTexts |-> <<>>]

\* processImage has not been invoked
NoRun == [pc |-> "idle", dataUrl |-> "", data |-> [lines |-> [null |-> TRUE]],
          calls |-> <<>>]

\* CardEditor is not mounted: no canvas element, no Fabric canvas, no effect.
\* fabricRef is 0 for null, or the index in canvases of the canvas it holds.
NoEditor == [mounted |-> FALSE, canvasRef |-> FALSE, fabricRef |-> 0,
             effects |-> <<>>, canvases |-> <<>>]

Rect(x0, y0, x1, y1) == [x0 |-> x0, y0 |-> y0, x1 |-> x1, y1 |-> y1]
NoRect == Rect(0, 0, 0, 0)

\* the RGBA bytes of a W x H image of colour bg with the pixels of `rect`
\* (x1 and y1 excluded) in colour fg
ImageOf(W, H, bg, fg, rect) ==
  [width |-> W, height |-> H,
   data |-> [i \in 0..(W * H * 4 - 1) |->
               LET x == (i \div 4) % W
                   y == (i \div 4) \div W
                   c == IF x >= rect.x0 /\ x < rect.x1 /\ y >= rect.y0 /\ y < rect.y1
                        THEN fg ELSE bg
               IN CASE i % 4 = 0 -> c.r
                    [] i % 4 = 1 -> c.g
                    [] i % 4 = 2 -> c.b
                    [] OTHER -> 255]]

\* the middle third of a box, in both directions
CenterThird(box) ==
  LET w == box.x1 - box.x0
      h == box.y1 - box.y0
  IN Rect(box.x0 + w \div 3, box.y0 + h \div 3,
          box.x0 + 2 * (w \div 3), box.y0 + 2 * (h \div 3))

\* a box inside the image whose sides are positive multiples of 3
HasCenterThird(img, box) ==
  /\ box.x0 >= 0 /\ box.x1 <= img.width /\ box.y0 >= 0 /\ box.y1 <= img.height
  /\ box.x1 > box.x0 /\ (box.x1 - box.x0) % 3 = 0
  /\ box.y1 > box.y0 /\ (box.y1 - box.y0) % 3 = 0

\* box coordinates along an axis of length n: outside on either side (near
\* and beyond the margin), on the edges and inside
Coords(n) == {0 - 3, 0 - 1, 0, 1, 3, n - 1, n, n + 2}

Boxes(W, H) ==
  {b \in {Rect(x0, y0, x1, y1) : x0 \in Coords(W), y0 \in Coords(H),
                                 x1 \in Coords(W), y1 \in Coords(H)} :
     b.x0 <= b.x1 /\ b.y0 <= b.y1}

\* the boxes inside the image whose sides are positive multiples of 3
ThirdBoxes(W, H) ==
  {b \in {Rect(x0, y0, x1, y1) : x0 \in 0..W, y0 \in 0..H, x1 \in 0..W, y1 \in 0..H} :
     HasCenterThird([width |-> W, height |-> H], b)}

RegionDims == {<<3, 2>>, <<MaxDim, MaxDim>>}

\* a flat image with any box, or a gray image whose box has a black
\* centre third
InitRegion ==
  /\ \E d \in RegionDims :
       \/ \E box \in Boxes(d[1], d[2]), c \in Palette :
            /\ bbox = box
            /\ imageData = ImageOf(d[1], d[2], c, c, NoRect)
       \/ \E box \in ThirdBoxes(d[1], d[2]), g \in Grays \ {Black} :
            /\ bbox = box
            /\ imageData = ImageOf(d[1], d[2], g, Black, CenterThird(box))
  /\ textBboxes = <<>>
  /\ colors = <<>>
  /\ text = <<>> /\ fontFamily = "" /\ fontWeight = "" /\ ctx = null
  /\ words = null
  /\ pc = "start" /\ ret = null /\ reads = {}
  /\ home = InitialHome /\ run = NoRun /\ log = <<>>
  /\ readers = <<>> /\ runs = <<>> /\ textsFrom = "" /\ editor = NoEditor

CallSampleTextAndBgColor ==
  /\ pc = "start"
  /\ ret' = sampleTextAndBgColor(imageData, bbox)
  /\ reads' = TextAndBgReads(imageData, bbox)
  /\ pc' = "sampleTextAndBgColor"
  /\ UNCHANGED <<imageData, bbox, textBboxes, colors, text, fontFamily,
                 fontWeight, ctx, words, home, run, log,
                 readers, runs, textsFrom, editor>>

NextRegion == CallSampleTextAndBgColor

SpecRegion == InitRegion /\ [][NextRegion]_vars

----------------------------------------------------------------------------
(* Card background and medoid: inputs and calls *)

\* 0: an image with no pixels in that direction
CardDims == {0, 1, MaxDim, 20}

\* a flat image, or one with a rectangle of another colour in its top left
CardImages(W, H) ==
  {ImageOf(W, H, c, c, NoRect) : c \in Palette}
    \cup {ImageOf(W, H, Gray, Black, Rect(0, 0, (W + 1) \div 2, H)),
          ImageOf(W, H, White, Red, Rect(0, 0, W, (H + 1) \div 2))}

\* no exclusion box, one over the top left quarter, one over the whole image
CardBoxes(W, H) ==
  {<<>>, <<Rect(0, 0, W \div 2, H \div 2)>>, <<Rect(0 - 1, 0, W, H + 2)>>}

InitCard ==
  /\ \E W \in CardDims, H \in CardDims :
       /\ imageData \in CardImages(W, H)
       /\ textBboxes \in CardBoxes(W, H)
  /\ bbox = NoRect
  /\ colors = <<>>
  /\ text = <<>> /\ fontFamily = "" /\ fontWeight = "" /\ ctx = null
  /\ words = null
  /\ pc = "start" /\ ret = null /\ reads = {}
  /\ home = InitialHome /\ run = NoRun /\ log = <<>>
  /\ readers = <<>> /\ runs = <<>> /\ textsFrom = "" /\ editor = NoEditor

CallSampleCardBackgroundColor ==
  /\ pc = "start"
  /\ ret' = sampleCardBackgroundColor(imageData, textBboxes)
  /\ reads' = {GridCoord(imageData, k) : k \in GridKept(imageData, textBboxes)}
  /\ pc' = "sampleCardBackgroundColor"
  /\ UNCHANGED <<imageData, bbox, textBboxes, colors, text, fontFamily,
                 fontWeight, ctx, words, home, run, log,
                 readers, runs, textsFrom, editor>>

NextCard == CallSampleCardBackgroundColor

SpecCard == InitCard /\ [][NextCard]_vars

RECURSIVE SeqsUpTo(_, _)
\* the sequences over S of length at most n
SeqsUpTo(S, n) ==
  IF n = 0 THEN {<<>>}
  ELSE LET shorter == SeqsUpTo(S, n - 1)
       IN shorter \cup {Append(q, e) : q \in shorter, e \in S}

InitMedoid ==
  /\ colors \in SeqsUpTo(Palette, MaxColors)
  /\ imageData = ImageOf(0, 0, White, White, NoRect)
  /\ bbox = NoRect
  /\ textBboxes = <<>>
  /\ text = <<>> /\ fontFamily = "" /\ fontWeight = "" /\ ctx = null
  /\ words = null
  /\ pc = "start" /\ ret = null /\ reads = {}
  /\ home = InitialHome /\ run = NoRun /\ log = <<>>
  /\ readers = <<>> /\ runs = <<>> /\ textsFrom = "" /\ editor = NoEditor

CallMedoidColor ==
  /\ pc = "start"
  /\ ret' = medoidColor(colors)
  /\ pc' = "medoidColor"
  /\ UNCHANGED <<imageData, bbox, textBboxes, colors, text, fontFamily,
                 fontWeight, ctx, words, reads, home, run, log,
                 readers, runs, textsFrom, editor>>

NextMedoid == CallMedoidColor

SpecMedoid == InitMedoid /\ [][NextMedoid]_vars

----------------------------------------------------------------------------
(* Font metrics estimator: inputs and calls *)

Fonts == FontWeights \X FontFamilies

\* the hosts: no 2D context, or an oracle
Contexts ==
  {null,
   [kind |-> "proportional", advance |-> [f \in Fonts |-> 1],
    ascent |-> 80, descent |-> 20],
   [kind |-> "proportional",
    advance |-> [f \in Fonts |-> IF f[1] = "bold" THEN 2 ELSE 1],
    ascent |-> 0, descent |-> 0],
   [kind |-> "zero", advance |-> [f \in Fonts |-> 1],
    ascent |-> 70, descent |-> 0 - 75],
   [kind |-> "shrinking", advance |-> [f \in Fonts |-> 2],
    ascent |-> 30, descent |-> 10]}

FontBoxes ==
  {Rect(1, 2, 1 + w, 2 + h) : w \in {0, 1, 2, 3, MaxBox, 20}, h \in {0 - 1, 0, 1, 2, MaxBox}}

InitFont ==
  /\ text \in SeqsUpTo({"a", " "}, MaxText)
  /\ bbox \in FontBoxes
  /\ fontFamily \in FontFamilies
  /\ fontWeight \in FontWeights
  /\ ctx \in Contexts
  /\ imageData = ImageOf(0, 0, White, White, NoRect)
  /\ textBboxes = <<>>
  /\ colors = <<>>
  /\ words = null
  /\ pc = "start" /\ ret = null /\ reads = {}
  /\ home = InitialHome /\ run = NoRun /\ log = <<>>
  /\ readers = <<>> /\ runs = <<>> /\ textsFrom = "" /\ editor = NoEditor

CallEstimateFontSize ==
  /\ pc = "start"
  /\ ret' = estimateFontSize(text, bbox, fontFamily, fontWeight, ctx)
  /\ pc' = "estimateFontSize"
  /\ UNCHANGED <<imageData, bbox, textBboxes, colors, text, fontFamily,
                 fontWeight, ctx, words, reads, home, run, log,
                 readers, runs, textsFrom, editor>>

NextFont == CallEstimateFontSize

SpecFont == InitFont /\ [][NextFont]_vars

WordFlags == [is_bold : BOOLEAN, is_serif : BOOLEAN, is_monospace : BOOLEAN]

InitWords ==
  /\ words \in {null} \cup {[items |-> q] : q \in SeqsUpTo(WordFlags, MaxWords)}
  /\ imageData = ImageOf(0, 0, White, White, NoRect)
  /\ bbox = NoRect
  /\ textBboxes = <<>>
  /\ colors = <<>>
  /\ text = <<>> /\ fontFamily = "" /\ fontWeight = "" /\ ctx = null
  /\ pc = "start" /\ ret = null /\ reads = {}
  /\ home = InitialHome /\ run = NoRun /\ log = <<>>
  /\ readers = <<>> /\ runs = <<>> /\ textsFrom = "" /\ editor = NoEditor

CallInferFontWeight ==
  /\ pc = "start"
  /\ ret' = inferFontWeight(words)
  /\ pc' = "inferFontWeight"
  /\ UNCHANGED <<imageData, bbox, textBboxes, colors, text, fontFamily,
                 fontWeight, ctx, words, reads, home, run, log,
                 readers, runs, textsFrom, editor>>

CallInferFontFamily ==
  /\ pc = "start"
  /\ ret' = inferFontFamily(words)
  /\ pc' = "inferFontFamily"
  /\ UNCHANGED <<imageData, bbox, textBboxes, colors, text, fontFamily,
                 fontWeight, ctx, words, reads, home, run, log,
                 readers, runs, textsFrom, editor>>

NextWords == CallInferFontWeight \/ CallInferFontFamily

SpecWords == InitWords /\ [][NextWords]_vars

\* the Error that getImageDataFromImage throws
ContextError == [name |-> "Error", message |-> "Failed to obtain 2D canvas context"]

\* the pictures of the image element: naturalWidth x naturalHeight pixels
Pictures == {ImageOf(1, 1, Black, Black, NoRect), ImageOf(3, 2, White, White, NoRect)}

\* c is what canvas.getContext("2d") gives; drawImage and getImageData hand
\* back the picture on a canvas of its size
getImageDataFromImage(img, c) ==
  IF c = null THEN [thrown |-> ContextError]
  ELSE [returned |-> img]

\* the host runs estimateFontSize or getImageDataFromImage, with or without
\* a 2D context
InitSetup ==
  /\ text \in SeqsUpTo({"a", " "}, MaxText)
  /\ bbox \in FontBoxes
  /\ fontFamily \in FontFamilies
  /\ fontWeight \in FontWeights
  /\ ctx \in Contexts
  /\ imageData \in Pictures
  /\ textBboxes = <<>>
  /\ colors = <<>>
  /\ words = null
  /\ pc = "start" /\ ret = null /\ reads = {}
  /\ home = InitialHome /\ run = NoRun /\ log = <<>>
  /\ readers = <<>> /\ runs = <<>> /\ textsFrom = "" /\ editor = NoEditor

\* pc becomes "throw" when the call ends in an exception; ret is then the
\* Error thrown
CallGetImageDataFromImage ==
  /\ pc = "start"
  /\ LET outcome == getImageDataFromImage(imageData, ctx)
     IN IF "thrown" \in DOMAIN outcome
        THEN ret' = outcome.thrown /\ pc' = "throw"
        ELSE ret' = outcome.returned /\ pc' = "getImageDataFromImage"
  /\ UNCHANGED <<imageData, bbox, textBboxes, colors, text, fontFamily,
                 fontWeight, ctx, words, reads, home, run, log,
                 readers, runs, textsFrom, editor>>

NextSetup == CallEstimateFontSize \/ CallGetImageDataFromImage

SpecSetup == InitSetup /\ [][NextSetup]_vars

----------------------------------------------------------------------------
(* Home.processImage (page.tsx) *)

\* the data URLs the uploader hands to processImage, and the picture that
\* loadImage decodes from each
DataUrls == {"data:black", "data:white"}
PictureOf(dataUrl) ==
  IF dataUrl = "data:black" THEN ImageOf(1, 1, Black, Black, NoRect)
  ELSE ImageOf(3, 2, White, White, NoRect)

\* the progress values the OCR logger reports, in percent of m.progress
ProgressValues == {0, 50, 100}

\* the fields of a Tesseract line that processImage reads
LineTexts == {<<>>, <<" ">>, <<"a">>, <<" ", "a">>}
LineBoxes == {Rect(0, 0, 3, 2), Rect(5, 0, 5, 1)}
Lines == [text : LineTexts, bbox : LineBoxes, confidence : {90}]

\* what recognizeCard resolves with: data.lines is missing, or a list
Pages ==
  {[lines |-> null]}
    \cup {[lines |-> [items |-> q]] : q \in SeqsUpTo(Lines, MaxLines)}

RECURSIVE NonEmptyLines(_, _)
\* .filter((line) => line.text.trim().length > 0), from line k on
NonEmptyLines(items, k) ==
  IF k > Len(items) THEN <<>>
  ELSE (IF Len(trim(items[k].text)) > 0 THEN <<items[k]>> ELSE <<>>)
         \o NonEmptyLines(items, k + 1)

\* (data.lines || [])
LinesOrEmpty(data) == IF data.lines = null THEN <<>> ELSE data.lines.items

\* the callback of .map for the line at index i (from 0) of the filtered list
DetectedTextOf(img, line, i) ==
  LET sampled == sampleTextAndBgColor(img, line.bbox)
  IN [id |-> <<"text-", i>>,
      text |-> trim(line.text),
      bbox |-> Rect(line.bbox.x0, line.bbox.y0, line.bbox.x1, line.bbox.y1),
      fontSize |-> (line.bbox.y1 - line.bbox.y0) * (FontScale \div 20) * 17,
      textColor |-> sampled.textColor,
      bgColor |-> sampled.bgColor,
      fontFamily |-> "sans-serif",
      confidence |-> line.confidence]

\* the library calls that the callback of .map makes for one line
CallsForLine(line, i) == <<[fn |-> "sampleTextAndBgColor", line |-> i]>>

RECURSIVE CallsForLines(_, _)
CallsForLines(kept, k) ==
  IF k > Len(kept) THEN <<>>
  ELSE CallsForLine(kept[k], k - 1) \o CallsForLines(kept, k + 1)

\* the catch block: console.error, then setStep("upload")
Catch == [home EXCEPT !.step = "upload"]

\* what canvas.getContext("2d") gives in getImageDataFromImage
CanvasContexts == {null, [kind |-> "2d"]}

InitPipeline ==
  /\ ctx \in CanvasContexts
  /\ imageData = ImageOf(0, 0, White, White, NoRect)
  /\ bbox = NoRect
  /\ textBboxes = <<>>
  /\ colors = <<>>
  /\ text = <<>> /\ fontFamily = "" /\ fontWeight = ""
  /\ words = null
  /\ pc = "start" /\ ret = null /\ reads = {}
  /\ home = InitialHome /\ run = NoRun /\ log = <<>>
  /\ readers = <<>> /\ runs = <<>> /\ textsFrom = "" /\ editor = NoEditor

\* the uploader (shown in the upload step) calls processImage(dataUrl), which
\* runs up to its first await
ProcessImage ==
  /\ home.step = "upload" /\ run.pc \in {"idle", "done"}
  /\ \E dataUrl \in DataUrls :
       /\ home' = [home EXCEPT !.imageUrl = dataUrl, !.step = "processing",
                               !.progress = 0]
       /\ run' = [pc |-> "recognizeCard", dataUrl |-> dataUrl,
                  data |-> [lines |-> null],
                  calls |-> <<[fn |-> "recognizeCard", line |-> 0 - 1]>>]
  /\ UNCHANGED <<imageData, bbox, textBboxes, colors, text, fontFamily,
                 fontWeight, ctx, words, pc, ret, reads, log,
                 readers, runs, textsFrom, editor>>

\* the logger of the OCR worker reports progress: (p) => setProgress(p)
OnProgress ==
  /\ run.pc = "recognizeCard"
  /\ \E p \in ProgressValues : home' = [home EXCEPT !.progress = p]
  /\ UNCHANGED <<imageData, bbox, textBboxes, colors, text, fontFamily,
                 fontWeight, ctx, words, pc, ret, reads, run, log,
                 readers, runs, textsFrom, editor>>

\* await recognizeCard(..) resolves; processImage runs up to await loadImage
RecognizeCardResolves ==
  /\ run.pc = "recognizeCard"
  /\ \E data \in Pages :
       run' = [run EXCEPT !.pc = "loadImage", !.data = data,
                          !.calls = @ \o <<[fn |-> "loadImage", line |-> 0 - 1]>>]
  /\ UNCHANGED <<imageData, bbox, textBboxes, colors, text, fontFamily,
                 fontWeight, ctx, words, pc, ret, reads, home, log,
                 readers, runs, textsFrom, editor>>

\* await recognizeCard(..) or await loadImage(..) rejects: the catch block
AwaitRejects ==
  /\ run.pc \in {"recognizeCard", "loadImage"}
  /\ home' = Catch
  /\ run' = [run EXCEPT !.pc = "done"]
  /\ UNCHANGED <<imageData, bbox, textBboxes, colors, text, fontFamily,
                 fontWeight, ctx, words, pc, ret, reads, log,
                 readers, runs, textsFrom, editor>>

\* await loadImage(..) resolves; processImage runs to its end
LoadImageResolves ==
  /\ run.pc = "loadImage"
  /\ LET outcome == getImageDataFromImage(PictureOf(run.dataUrl), ctx)
         called == run.calls \o <<[fn |-> "getImageDataFromImage", line |-> 0 - 1]>>
     IN IF "thrown" \in DOMAIN outcome
        THEN /\ home' = Catch
             /\ run' = [run EXCEPT !.pc = "done", !.calls = called]
             /\ UNCHANGED <<imageData, reads, log, textsFrom>>
        ELSE LET img == outcome.returned
                 kept == NonEmptyLines(LinesOrEmpty(run.data), 1)
                 texts == [k \in 1..Len(kept) |-> DetectedTextOf(img, kept[k], k - 1)]
             IN /\ home' = [home EXCEPT !.detectedTexts = texts, !.step = "editor"]
                /\ run' = [run EXCEPT !.pc = "done",
                                      !.calls = called \o CallsForLines(kept, 1)]
                /\ imageData' = img
                /\ reads' = UNION {TextAndBgReads(img, kept[k].bbox) : k \in 1..Len(kept)}
                /\ textsFrom' = run.dataUrl
  /\ UNCHANGED <<bbox, textBboxes, colors, text, fontFamily,
                 fontWeight, ctx, words, pc, ret, log,
                 readers, runs, editor>>

\* "Start over" in the editor step
HandleReset ==
  /\ home.step = "editor"
  /\ home' = [home EXCEPT !.step = "upload", !.imageUrl = "",
                          !.detectedTexts = <<>>, !.progress = 0]
  /\ textsFrom' = ""
  /\ UNCHANGED <<imageData, bbox, textBboxes, colors, text, fontFamily,
                 fontWeight, ctx, words, pc, ret, reads, run, log,
                 readers, runs, editor>>

NextPipeline ==
  \/ ProcessImage \/ OnProgress \/ RecognizeCardResolves \/ AwaitRejects
  \/ LoadImageResolves \/ HandleReset

SpecPipeline == InitPipeline /\ [][NextPipeline]_vars

----------------------------------------------------------------------------
(* Several calls on one pixel buffer *)

\* a gray image whose left columns are black
SessionImages == {ImageOf(MaxDim, MaxDim, Gray, Black, Rect(0, 0, 6, MaxDim))}
SessionBoxes == {Rect(1, 2, 3, 4), Rect(8, 2, 9, 4)}
SessionExclusions == {<<>>, <<Rect(6, 0, MaxDim, MaxDim)>>}
SessionColors == {<<Black, Gray, Gray>>}

InitSession ==
  /\ imageData \in SessionImages
  /\ bbox = NoRect
  /\ textBboxes = <<>>
  /\ colors = <<>>
  /\ text = <<>> /\ fontFamily = "" /\ fontWeight = "" /\ ctx = null
  /\ words = null
  /\ pc = "start" /\ ret = null /\ reads = {}
  /\ home = InitialHome /\ run = NoRun /\ log = <<>>
  /\ readers = <<>> /\ runs = <<>> /\ textsFrom = "" /\ editor = NoEditor

\* the entry of the log for a call that has returned
Logged(fn, box, boxes, cols, result) ==
  [fn |-> fn, bbox |-> box, textBboxes |-> boxes, colors |-> cols,
   result |-> result]

\* sampleTextAndBgColor that works on the box left by the call before
AgainSampleTextAndBgColorStaleBox ==
  /\ Len(log) < MaxCalls
  /\ \E box \in SessionBoxes :
       LET used == IF pc = "sampleTextAndBgColor" THEN bbox ELSE box
           result == sampleTextAndBgColor(imageData, used)
       IN /\ bbox' = box
          /\ ret' = result
          /\ reads' = reads \cup TextAndBgReads(imageData, used)
          /\ log' = Append(log, Logged("sampleTextAndBgColor", box, <<>>, <<>>, result))
  /\ pc' = "sampleTextAndBgColor"
  /\ UNCHANGED <<imageData, textBboxes, colors, text, fontFamily, fontWeight,
                 ctx, words, home, run,
                 readers, runs, textsFrom, editor>>

\* one more call of sampleTextAndBgColor(imageData, box)
AgainSampleTextAndBgColor ==
  /\ Len(log) < MaxCalls
  /\ \E box \in SessionBoxes :
       LET result == sampleTextAndBgColor(imageData, box)
       IN /\ bbox' = box
          /\ ret' = result
          /\ reads' = reads \cup TextAndBgReads(imageData, box)
          /\ log' = Append(log, Logged("sampleTextAndBgColor", box, <<>>, <<>>, result))
  /\ pc' = "sampleTextAndBgColor"
  /\ UNCHANGED <<imageData, textBboxes, colors, text, fontFamily, fontWeight,
                 ctx, words, home, run,
                 readers, runs, textsFrom, editor>>

\* one more call of sampleCardBackgroundColor(imageData, boxes)
AgainSampleCardBackgroundColor ==
  /\ Len(log) < MaxCalls
  /\ \E boxes \in SessionExclusions :
       LET result == sampleCardBackgroundColor(imageData, boxes)
       IN /\ textBboxes' = boxes
          /\ ret' = result
          /\ log' = Append(log, Logged("sampleCardBackgroundColor", NoRect, boxes, <<>>, result))
  /\ pc' = "sampleCardBackgroundColor"
  /\ UNCHANGED <<imageData, bbox, colors, text, fontFamily, fontWeight,
                 ctx, words, reads, home, run,
                 readers, runs, textsFrom, editor>>

\* one more call of medoidColor(cols)
AgainMedoidColor ==
  /\ Len(log) < MaxCalls
  /\ \E cols \in SessionColors :
       LET result == medoidColor(cols)
       IN /\ colors' = cols
          /\ ret' = result
          /\ log' = Append(log, Logged("medoidColor", NoRect, <<>>, cols, result))
  /\ pc' = "medoidColor"
  /\ UNCHANGED <<imageData, bbox, textBboxes, text, fontFamily, fontWeight,
                 ctx, words, reads, home, run,
                 readers, runs, textsFrom, editor>>

NextSession ==
  AgainSampleTextAndBgColor \/ AgainSampleCardBackgroundColor \/ AgainMedoidColor

SpecSession == InitSession /\ [][NextSession]_vars

----------------------------------------------------------------------------
(* medoidColor on more than maxSamples colours *)

\* n colours: colour a at the indices lo..hi-1 (from 0), colour b elsewhere
IntervalColors(n, lo, hi, a, b) ==
  [j \in 1..n |-> IF lo <= j - 1 /\ j - 1 < hi THEN a ELSE b]

LongColors ==
  {IntervalColors(n, lo, hi, pair[1], pair[2]) :
     n \in {201, 205, 400}, lo \in {0, 20, 100}, hi \in {100, 123, 124, 201},
     pair \in {<<Black, White>>, <<White, Black>>, <<Gray, Red>>, <<Red, Dark>>}}

InitSubsample ==
  /\ colors \in LongColors
  /\ imageData = ImageOf(0, 0, White, White, NoRect)
  /\ bbox = NoRect
  /\ textBboxes = <<>>
  /\ text = <<>> /\ fontFamily = "" /\ fontWeight = "" /\ ctx = null
  /\ words = null
  /\ pc = "start" /\ ret = null /\ reads = {}
  /\ home = InitialHome /\ run = NoRun /\ log = <<>>
  /\ readers = <<>> /\ runs = <<>> /\ textsFrom = "" /\ editor = NoEditor

\* medoidColor(colors), up to twice on the same input
RepeatMedoidColor ==
  /\ Len(log) < 2
  /\ LET result == medoidColor(colors)
     IN /\ ret' = result
        /\ log' = Append(log, Logged("medoidColor", NoRect, <<>>, <<>>, result))
  /\ pc' = "medoidColor"
  /\ UNCHANGED <<imageData, bbox, textBboxes, colors, text, fontFamily,
                 fontWeight, ctx, words, reads, home, run,
                 readers, runs, textsFrom, editor>>

NextSubsample == RepeatMedoidColor

SpecSubsample == InitSubsample /\ [][NextSubsample]_vars

----------------------------------------------------------------------------
(* ImageUploader.handleFile, recognizeCard (ocr.ts) and processImage, with
   invocations that overlap *)

\* 10 * 1024 * 1024
MAX_FILE_SIZE == 10485760

\* the files dropped on the uploader or chosen in its input: the fields that
\* handleFile reads, and the data URL that readAsDataURL produces
Files == [type : {"image/png", "text/plain"}, size : {1, MAX_FILE_SIZE + 1},
          dataUrl : DataUrls]

\* file.type.startsWith("image/")
IsImageType(type) == type = "image/png"

\* handleFile reaches reader.readAsDataURL(file): neither early return
Accepted(file) == IsImageType(file.type) /\ ~(file.size > MAX_FILE_SIZE)

\* what recognizeCard resolves with, here: data.lines missing, or one line
UploadPages ==
  {[lines |-> null],
   [lines |-> [items |-> <<[text |-> <<"a">>, bbox |-> Rect(0, 0, 3, 2),
                            confidence |-> 90]>>]]}

\* processImage(dataUrl) up to its first await: recognizeCard has been called
\* and awaits Tesseract.createWorker
NewRun(dataUrl) ==
  [dataUrl |-> dataUrl, pc |-> "createWorker", worker |-> "none",
   promise |-> "pending", outcome |-> "none", data |-> [lines |-> null]]

\* the invocations that have not completed
Running == {i \in 1..Len(runs) : runs[i].pc # "done"}

InitUploads ==
  /\ ctx \in CanvasContexts
  /\ imageData = ImageOf(0, 0, White, White, NoRect)
  /\ bbox = NoRect
  /\ textBboxes = <<>>
  /\ colors = <<>>
  /\ text = <<>> /\ fontFamily = "" /\ fontWeight = ""
  /\ words = null
  /\ pc = "start" /\ ret = null /\ reads = {}
  /\ home = InitialHome /\ run = NoRun /\ log = <<>>
  /\ readers = <<>> /\ runs = <<>> /\ textsFrom = "" /\ editor = NoEditor

\* handleFile(file), from a drop or from the input of the uploader, which is
\* rendered in the upload step only
HandleFile ==
  /\ home.step = "upload"
  /\ Len(readers) + Len(runs) < MaxUploads
  /\ \E file \in Files :
       /\ Accepted(file)
       /\ readers' = Append(readers, [result |-> file.dataUrl])
  /\ UNCHANGED <<imageData, bbox, textBboxes, colors, text, fontFamily,
                 fontWeight, ctx, words, pc, ret, reads, home, run, log,
                 runs, textsFrom, editor>>

\* reader.onload of one of the readers: onImageLoaded(dataUrl), which is
\* processImage, runs up to its first await. Nothing cancels a reader when
\* the uploader is unmounted.
ReaderOnload ==
  \E k \in 1..Len(readers) :
    /\ readers' = SubSeq(readers, 1, k - 1) \o SubSeq(readers, k + 1, Len(readers))
    /\ home' = [home EXCEPT !.imageUrl = readers[k].result,
                            !.step = "processing", !.progress = 0]
    /\ runs' = Append(runs, NewRun(readers[k].result))
    /\ UNCHANGED <<imageData, bbox, textBboxes, colors, text, fontFamily,
                   fontWeight, ctx, words, pc, ret, reads, run, log,
                   textsFrom, editor>>

\* the logger of a worker reports progress: (p) => setProgress(p)
LoggerProgress ==
  \E i \in Running :
    /\ runs[i].pc \in {"createWorker", "recognize"}
    /\ \E p \in ProgressValues : home' = [home EXCEPT !.progress = p]
    /\ UNCHANGED <<imageData, bbox, textBboxes, colors, text, fontFamily,
                   fontWeight, ctx, words, pc, ret, reads, run, log,
                   readers, runs, textsFrom, editor>>

\* await Tesseract.createWorker(..) resolves: the worker exists, and
\* recognizeCard runs up to await worker.recognize
CreateWorkerResolves ==
  \E i \in Running :
    /\ runs[i].pc = "createWorker"
    /\ runs' = [runs EXCEPT ![i].pc = "recognize", ![i].worker = "created"]
    /\ UNCHANGED <<imageData, bbox, textBboxes, colors, text, fontFamily,
                   fontWeight, ctx, words, pc, ret, reads, home, run, log,
                   readers, textsFrom, editor>>

\* await Tesseract.createWorker(..) rejects, outside the try of recognizeCard:
\* its promise rejects, and the catch block of processImage runs
CreateWorkerRejects ==
  \E i \in Running :
    /\ runs[i].pc = "createWorker"
    /\ runs' = [runs EXCEPT ![i].pc = "done", ![i].promise = "rejected",
                            ![i].outcome = "throw"]
    /\ home' = Catch
    /\ UNCHANGED <<imageData, bbox, textBboxes, colors, text, fontFamily,
                   fontWeight, ctx, words, pc, ret, reads, run, log,
                   readers, textsFrom, editor>>

\* await worker.recognize(..) rejects without a finally block: the promise of
\* recognizeCard rejects and the worker is left as it is
RecognizeRejectsNoFinally ==
  \E i \in Running :
    /\ runs[i].pc = "recognize"
    /\ runs' = [runs EXCEPT ![i].pc = "done", ![i].promise = "rejected",
                            ![i].outcome = "throw"]
    /\ home' = Catch
    /\ UNCHANGED <<imageData, bbox, textBboxes, colors, text, fontFamily,
                   fontWeight, ctx, words, pc, ret, reads, run, log,
                   readers, textsFrom, editor>>

\* await worker.recognize(..) resolves: return data, then the finally block
\* runs up to await worker.terminate(), which ends the worker
RecognizeResolves ==
  \E i \in Running :
    /\ runs[i].pc = "recognize"
    /\ \E data \in UploadPages :
         runs' = [runs EXCEPT ![i].pc = "terminate", ![i].worker = "terminated",
                              ![i].outcome = "return", ![i].data = data]
    /\ UNCHANGED <<imageData, bbox, textBboxes, colors, text, fontFamily,
                   fontWeight, ctx, words, pc, ret, reads, home, run, log,
                   readers, textsFrom, editor>>

\* await worker.recognize(..) rejects: the finally block runs up to
\* await worker.terminate(), which ends the worker
RecognizeRejects ==
  \E i \in Running :
    /\ runs[i].pc = "recognize"
    /\ runs' = [runs EXCEPT ![i].pc = "terminate", ![i].worker = "terminated",
                            ![i].outcome = "throw"]
    /\ UNCHANGED <<imageData, bbox, textBboxes, colors, text, fontFamily,
                   fontWeight, ctx, words, pc, ret, reads, home, run, log,
                   readers, textsFrom, editor>>

\* await worker.terminate() resolves and the promise of recognizeCard settles:
\* with data, after which processImage runs up to await loadImage, or with
\* the error of recognize, after which the catch block of processImage runs
TerminateResolves ==
  \E i \in Running :
    /\ runs[i].pc = "terminate"
    /\ IF runs[i].outcome = "return"
       THEN /\ runs' = [runs EXCEPT ![i].pc = "loadImage", ![i].promise = "resolved"]
            /\ UNCHANGED home
       ELSE /\ runs' = [runs EXCEPT ![i].pc = "done", ![i].promise = "rejected"]
            /\ home' = Catch
    /\ UNCHANGED <<imageData, bbox, textBboxes, colors, text, fontFamily,
                   fontWeight, ctx, words, pc, ret, reads, run, log,
                   readers, textsFrom, editor>>

\* img.onload of loadImage: processImage runs to its end
ImageOnload ==
  \E i \in Running :
    /\ runs[i].pc = "loadImage"
    /\ LET outcome == getImageDataFromImage(PictureOf(runs[i].dataUrl), ctx)
       IN IF "thrown" \in DOMAIN outcome
          THEN /\ home' = Catch
               /\ runs' = [runs EXCEPT ![i].pc = "done", ![i].outcome = "throw"]
               /\ UNCHANGED <<imageData, textsFrom>>
          ELSE LET img == outcome.returned
                   kept == NonEmptyLines(LinesOrEmpty(runs[i].data), 1)
                   texts == [k \in 1..Len(kept) |-> DetectedTextOf(img, kept[k], k - 1)]
               IN /\ home' = [home EXCEPT !.detectedTexts = texts, !.step = "editor"]
                  /\ runs' = [runs EXCEPT ![i].pc = "done"]
                  /\ imageData' = img
                  /\ textsFrom' = runs[i].dataUrl
    /\ UNCHANGED <<bbox, textBboxes, colors, text, fontFamily,
                   fontWeight, ctx, words, pc, ret, reads, run, log,
                   readers, editor>>

\* img.onerror of loadImage: the catch block of processImage
ImageOnerror ==
  \E i \in Running :
    /\ runs[i].pc = "loadImage"
    /\ runs' = [runs EXCEPT ![i].pc = "done", ![i].outcome = "throw"]
    /\ home' = Catch
    /\ UNCHANGED <<imageData, bbox, textBboxes, colors, text, fontFamily,
                   fontWeight, ctx, words, pc, ret, reads, run, log,
                   readers, textsFrom, editor>>

NextUploads ==
  \/ HandleFile \/ ReaderOnload \/ LoggerProgress
  \/ CreateWorkerResolves \/ CreateWorkerRejects
  \/ RecognizeResolves \/ RecognizeRejects \/ TerminateResolves
  \/ ImageOnload \/ ImageOnerror \/ HandleReset

SpecUploads == InitUploads /\ [][NextUploads]_vars

----------------------------------------------------------------------------
(* CardEditor: the effect that builds the Fabric canvas *)

\* the runs of the effect that React has not cleaned up
ActiveEffects == {e \in 1..Len(editor.effects) : ~editor.effects[e].cleaned}

\* fabricRef.current?.dispose() on the list of canvases
Disposed(canvases, ref) ==
  IF ref = 0 THEN canvases ELSE [canvases EXCEPT ![ref].disposed = TRUE]

InitEditor ==
  /\ ctx = null
  /\ imageData = ImageOf(0, 0, White, White, NoRect)
  /\ bbox = NoRect
  /\ textBboxes = <<>>
  /\ colors = <<>>
  /\ text = <<>> /\ fontFamily = "" /\ fontWeight = ""
  /\ words = null
  /\ pc = "start" /\ ret = null /\ reads = {}
  /\ home = InitialHome /\ run = NoRun /\ log = <<>>
  /\ readers = <<>> /\ runs = <<>> /\ textsFrom = "" /\ editor = NoEditor

\* Home renders <CardEditor> (editor step): a new instance with its own refs,
\* after the effect of an earlier instance has been cleaned up
MountEditor ==
  /\ ~editor.mounted /\ ActiveEffects = {}
  /\ Len(editor.effects) < MaxEffects
  /\ editor' = [editor EXCEPT !.mounted = TRUE, !.canvasRef = TRUE, !.fabricRef = 0]
  /\ UNCHANGED <<imageData, bbox, textBboxes, colors, text, fontFamily,
                 fontWeight, ctx, words, pc, ret, reads, home, run, log,
                 readers, runs, textsFrom>>

\* the effect runs, after the mount or after a change of imageUrl or
\* detectedTexts (of which it captures n texts); React has run the cleanup
\* of the previous run before
RunEffect ==
  /\ editor.mounted /\ ActiveEffects = {}
  /\ Len(editor.effects) < MaxEffects
  /\ \E n \in 0..MaxLines :
       editor' =
         IF ~editor.canvasRef THEN editor
         ELSE [editor EXCEPT !.effects =
                 Append(@, [cancelled |-> FALSE, cleaned |-> FALSE,
                            img |-> "loading", texts |-> n])]
  /\ UNCHANGED <<imageData, bbox, textBboxes, colors, text, fontFamily,
                 fontWeight, ctx, words, pc, ret, reads, home, run, log,
                 readers, runs, textsFrom>>

\* the cleanup of a run of the effect: before the next run or after unmount
CleanupEffect ==
  \E e \in ActiveEffects :
    /\ editor' = [editor EXCEPT !.effects[e].cancelled = TRUE,
                                !.effects[e].cleaned = TRUE,
                                !.canvases = Disposed(@, editor.fabricRef),
                                !.fabricRef = 0]
    /\ UNCHANGED <<imageData, bbox, textBboxes, colors, text, fontFamily,
                   fontWeight, ctx, words, pc, ret, reads, home, run, log,
                   readers, runs, textsFrom>>

\* Home stops rendering <CardEditor>: React detaches the ref of the canvas
\* element; the cleanup of the effect follows
UnmountEditor ==
  /\ editor.mounted
  /\ editor' = [editor EXCEPT !.mounted = FALSE, !.canvasRef = FALSE]
  /\ UNCHANGED <<imageData, bbox, textBboxes, colors, text, fontFamily,
                 fontWeight, ctx, words, pc, ret, reads, home, run, log,
                 readers, runs, textsFrom>>

\* the body of img.onload past its first line, for the run e of the effect:
\* dispose the canvas in fabricRef, create one, and add the background and
\* the texts unless offscreen.getContext("2d") gave null (offCtx.drawImage
\* then throws, after the canvas was created)
BuildCanvas(e, offCtx) ==
  [editor EXCEPT
     !.effects[e].img = "loaded",
     !.canvases = Append(Disposed(@, editor.fabricRef),
                         [disposed |-> FALSE, effect |-> e,
                          image |-> offCtx # null,
                          texts |-> IF offCtx = null THEN 0
                                    ELSE editor.effects[e].texts]),
     !.fabricRef = Len(editor.canvases) + 1]

\* img.onload without the test of cancelled
EffectImageOnloadUnchecked ==
  \E e \in 1..Len(editor.effects) :
    /\ editor.effects[e].img = "loading"
    /\ \E offCtx \in CanvasContexts :
         editor' =
           IF ~editor.canvasRef
           THEN [editor EXCEPT !.effects[e].img = "loaded"]
           ELSE BuildCanvas(e, offCtx)
    /\ UNCHANGED <<imageData, bbox, textBboxes, colors, text, fontFamily,
                   fontWeight, ctx, words, pc, ret, reads, home, run, log,
                   readers, runs, textsFrom>>

\* img.onload of the image of a run of the effect, cleaned up or not
EffectImageOnload ==
  \E e \in 1..Len(editor.effects) :
    /\ editor.effects[e].img = "loading"
    /\ \E offCtx \in CanvasContexts :
         editor' =
           IF editor.effects[e].cancelled \/ ~editor.canvasRef
           THEN [editor EXCEPT !.effects[e].img = "loaded"]
           ELSE BuildCanvas(e, offCtx)
    /\ UNCHANGED <<imageData, bbox, textBboxes, colors, text, fontFamily,
                   fontWeight, ctx, words, pc, ret, reads, home, run, log,
                   readers, runs, textsFrom>>

\* the image of a run of the effect fails to load: img has no onerror
EffectImageOnerror ==
  \E e \in 1..Len(editor.effects) :
    /\ editor.effects[e].img = "loading"
    /\ editor' = [editor EXCEPT !.effects[e].img = "failed"]
    /\ UNCHANGED <<imageData, bbox, textBboxes, colors, text, fontFamily,
                   fontWeight, ctx, words, pc, ret, reads, home, run, log,
                   readers, runs, textsFrom>>

NextEditor ==
  \/ MountEditor \/ RunEffect \/ CleanupEffect \/ UnmountEditor
  \/ EffectImageOnload \/ EffectImageOnerror

SpecEditor == InitEditor /\ [][NextEditor]_vars

\* every call of the model
Init ==
  InitRegion \/ InitCard \/ InitMedoid \/ InitFont \/ InitWords \/ InitSetup
    \/ InitPipeline \/ InitSession \/ InitSubsample \/ InitUploads
    \/ InitEditor

Next ==
  NextRegion \/ NextCard \/ NextMedoid \/ NextFont \/ NextWords \/ NextSetup
    \/ NextPipeline \/ NextSession \/ NextSubsample \/ NextUploads
    \/ NextEditor

Spec == Init /\ [][Next]_vars

----------------------------------------------------------------------------
(* Region colour classifier: properties *)

IsHexDigit(ch) == \E k \in 1..Len(HexDigits) : HexDigits[k] = ch

\* '#' followed by 6 lowercase hexadecimal digits
IsHexColor(str) ==
  /\ Len(str) = 7
  /\ str[1] = "#"
  /\ \A k \in 2..7 : IsHexDigit(str[k])

\* the hex strings of the palette, written out
PaletteHex(c) ==
  CASE c = Black -> <<"#", "0", "0", "0", "0", "0", "0">>
    [] c = Dark -> <<"#", "2", "8", "2", "8", "2", "8">>
    [] c = Gray -> <<"#", "8", "0", "8", "0", "8", "0">>
    [] c = White -> <<"#", "f", "f", "f", "f", "f", "f">>
    [] c = Red -> <<"#", "c", "8", "1", "e", "1", "e">>

Returned(f) == pc = f

\* no pixel of the image lies in the box, in x or in y
EntirelyOutside(img, box) ==
  \/ box.x1 < 0 \/ box.x0 >= img.width
  \/ box.y1 < 0 \/ box.y0 >= img.height

\* the box clamped to the image has an empty x-range or an empty y-range
ZeroAreaAfterClamping(img, box) ==
  \/ Max(0, box.x0) >= Min(img.width, box.x1)
  \/ Max(0, box.y0) >= Min(img.height, box.y1)

\* C1: for a bounding box entirely outside the image bounds,
\* sampleTextAndBgColor returns exactly {textColor "#000000", bgColor "#ffffff"}.
C1_OutsideBoxReturnsFallback ==
  (Returned("sampleTextAndBgColor") /\ EntirelyOutside(imageData, bbox))
    => ret = FallbackColors

\* C2: for a bounding box of zero area after clamping, sampleTextAndBgColor
\* samples no border pixel and returns the hard-coded fallback.
C2_ZeroAreaReturnsFallback ==
  (Returned("sampleTextAndBgColor") /\ ZeroAreaAfterClamping(imageData, bbox))
    => (reads = {} /\ ret = FallbackColors)

\* C3: every colour string returned by sampleTextAndBgColor and by
\* sampleCardBackgroundColor is '#' followed by 6 lowercase hex digits.
C3_HexFormat ==
  /\ Returned("sampleTextAndBgColor")
       => (IsHexColor(ret.textColor) /\ IsHexColor(ret.bgColor))
  /\ Returned("sampleCardBackgroundColor") => IsHexColor(ret)

\* C4: every pixel coordinate sampleTextAndBgColor reads lies inside the image.
C4_ReadsInsideImage ==
  Returned("sampleTextAndBgColor")
    => \A c \in reads : /\ 0 <= c.x /\ c.x < imageData.width
                        /\ 0 <= c.y /\ c.y < imageData.height

\* the image is a flat gray g with the centre third of the box in black
IsGrayWithBlackThird(img, box, g) ==
  /\ HasCenterThird(img, box)
  /\ img = ImageOf(img.width, img.height, g, Black, CenterThird(box))

\* C6 as stated: for a uniform gray image and a box of any size whose centre
\* third is black, bgColor is the gray and textColor is black.
C6_AnySizeBox ==
  \A g \in Grays \ {Black} :
    (Returned("sampleTextAndBgColor") /\ IsGrayWithBlackThird(imageData, bbox, g))
      => ret = [textColor |-> PaletteHex(Black), bgColor |-> PaletteHex(g)]

\* C6 amended: the same for the boxes that are at least 6 wide and 6 high, so
\* that the black centre third holds a pixel of the stride-2 sampling.
C6_BoxAtLeastSix ==
  \A g \in Grays \ {Black} :
    (/\ Returned("sampleTextAndBgColor")
     /\ IsGrayWithBlackThird(imageData, bbox, g)
     /\ bbox.x1 - bbox.x0 >= 6 /\ bbox.y1 - bbox.y0 >= 6)
      => ret = [textColor |-> PaletteHex(Black), bgColor |-> PaletteHex(g)]

\* a 6 x 9 box with a black centre third on a dark gray image has been sampled
C6_Witness ==
  /\ Returned("sampleTextAndBgColor")
  /\ IsGrayWithBlackThird(imageData, bbox, Dark)
  /\ bbox.x1 - bbox.x0 = 6 /\ bbox.y1 - bbox.y0 = 9
  /\ ret.textColor = PaletteHex(Black)

----------------------------------------------------------------------------
(* Medoid and card background: properties *)

RECURSIVE TotalDeltaE(_, _, _)
\* the sum of the deltaE from cs[i] to the other elements, from index j on
TotalDeltaE(cs, i, j) ==
  IF j > Len(cs) THEN 0
  ELSE (IF j # i THEN DeltaEOf(rgbToLab(cs[i]), rgbToLab(cs[j])) ELSE 0)
       + TotalDeltaE(cs, i, j + 1)

\* C5: medoidColor returns white for an empty input, the element of a
\* singleton, and otherwise an element of the input whose summed deltaE to
\* the other elements is at most that of every other element.
C5_MedoidMinimizes ==
  Returned("medoidColor") =>
    /\ Len(colors) = 0 => ret = White
    /\ Len(colors) = 1 => ret = colors[1]
    /\ Len(colors) >= 2 =>
         \E i \in 1..Len(colors) :
           /\ ret = colors[i]
           /\ \A j \in 1..Len(colors) :
                TotalDeltaE(colors, i, 1) <= TotalDeltaE(colors, j, 1)

\* the medoid of three colours was neither the first nor the last of them
C5_Witness ==
  /\ Returned("medoidColor")
  /\ Len(colors) = 3
  /\ ret = colors[2] /\ ret # colors[1] /\ ret # colors[3]

\* C7: on an image of at least 1x1 pixels whose pixels all have the colour
\* c, with no exclusion box, sampleCardBackgroundColor returns the hex string
\* of c.
C7_FlatImage ==
  \A c \in Palette :
    (/\ Returned("sampleCardBackgroundColor")
     /\ imageData.width >= 1 /\ imageData.height >= 1
     /\ textBboxes = <<>>
     /\ imageData = ImageOf(imageData.width, imageData.height, c, c, NoRect))
      => ret = PaletteHex(c)

\* a flat red image with a margin (20 wide) has been sampled
C7_Witness ==
  /\ Returned("sampleCardBackgroundColor")
  /\ textBboxes = <<>>
  /\ imageData = ImageOf(20, 1, Red, Red, NoRect)
  /\ ret = PaletteHex(Red)
  /\ reads # {}

----------------------------------------------------------------------------
(* Font metrics estimator: properties *)

BoxHeight == bbox.y1 - bbox.y0
BoxWidth == bbox.x1 - bbox.x0

\* C8: for a box of height h > 0, estimateFontSize returns a value between
\* 0.4 h and 1.5 h, whichever path is taken.
C8_SizeWithinClamp ==
  (Returned("estimateFontSize") /\ BoxHeight > 0)
    => /\ 2 * BoxHeight * FontScale <= 5 * ret
       /\ 2 * ret <= 3 * BoxHeight * FontScale

\* the fit by width gave more than 1.5 h and the call returned 1.5 h
C8_Witness ==
  /\ Returned("estimateFontSize")
  /\ BoxHeight > 0 /\ BoxWidth > 0 /\ ctx # null /\ Len(trim(text)) >= 3
  /\ fitByWidth(ctx, trim(text), BoxWidth, fontFamily, fontWeight)
       > (3 * BoxHeight * FontScale) \div 2
  /\ 2 * ret = 3 * BoxHeight * FontScale

\* the box of the call, twice as wide
DoubledBox == Rect(bbox.x0, bbox.y0, bbox.x0 + 2 * BoxWidth, bbox.y1)

\* C9: with at least 3 trimmed characters and an oracle whose width does not
\* decrease as the size grows, the estimate for the box of width 2w is never
\* smaller than the estimate for the box of width w > 0.
C9_DoublingWidth ==
  (/\ Returned("estimateFontSize")
   /\ Len(trim(text)) >= 3 /\ BoxWidth > 0
   /\ ctx # null /\ ctx.kind # "shrinking")
    => estimateFontSize(text, DoubledBox, fontFamily, fontWeight, ctx) >= ret

\* the fit by width was used and the doubled box gave a strictly larger size
C9_Witness ==
  /\ Returned("estimateFontSize")
  /\ Len(trim(text)) >= 3 /\ BoxWidth > 0 /\ BoxHeight > 0
  /\ ctx # null /\ ctx.kind = "proportional"
  /\ estimateFontSize(text, DoubledBox, fontFamily, fontWeight, ctx) > ret

\* the number of words flagged bold
BoldWords == Cardinality({k \in 1..Len(words.items) : words.items[k].is_bold})

\* C10: inferFontWeight returns "bold" iff strictly more than half of the
\* words are flagged bold; a tie, an empty list and a missing list give
\* "normal".
C10_StrictMajority ==
  Returned("inferFontWeight") =>
    /\ ret \in {"bold", "normal"}
    /\ ret = "bold" <=> (words # null /\ 2 * BoldWords > Len(words.items))

\* one of two words is bold and the answer was "normal"
C10_Witness ==
  /\ Returned("inferFontWeight")
  /\ words # null /\ Len(words.items) = 2 /\ BoldWords = 1
  /\ ret = "normal"

\* the words that vote monospace, serif and sans-serif: a word flagged
\* monospace votes monospace whatever its serif flag
MonoVotes == Cardinality({k \in 1..Len(words.items) : words.items[k].is_monospace})
SerifVotes ==
  Cardinality({k \in 1..Len(words.items) :
                 words.items[k].is_serif /\ ~words.items[k].is_monospace})
SansVotes ==
  Cardinality({k \in 1..Len(words.items) :
                 ~words.items[k].is_serif /\ ~words.items[k].is_monospace})
\* the words that carry the serif flag
SerifFlagged == Cardinality({k \in 1..Len(words.items) : words.items[k].is_serif})

\* the family chosen from three counts
FamilyOf(mono, serif, sans) ==
  IF mono >= serif /\ mono >= sans THEN "monospace"
  ELSE IF serif > sans THEN "Noto Serif JP"
  ELSE "Noto Sans JP"

\* C11 as stated: inferFontFamily decides by the number of words flagged
\* monospace, the number flagged serif and the number flagged neither, also
\* when a word carries both flags; an empty list gives the sans-serif default.
C11_FlagCounts ==
  Returned("inferFontFamily") =>
    IF words = null \/ Len(words.items) = 0 THEN ret = "Noto Sans JP"
    ELSE ret = FamilyOf(MonoVotes, SerifFlagged, SansVotes)

\* C11 amended: inferFontFamily decides by the votes, one per word: monospace
\* if flagged monospace, else serif if flagged serif, else sans-serif; an
\* empty or missing list gives the sans-serif default.
C11_VoteCounts ==
  Returned("inferFontFamily") =>
    IF words = null \/ Len(words.items) = 0 THEN ret = "Noto Sans JP"
    ELSE ret = FamilyOf(MonoVotes, SerifVotes, SansVotes)

\* a word with both flags and a word flagged serif only: one vote each, and
\* monospace wins the tie
C11_Witness ==
  /\ Returned("inferFontFamily")
  /\ words # null /\ Len(words.items) = 2
  /\ MonoVotes = 1 /\ SerifVotes = 1 /\ SerifFlagged = 2
  /\ ret = "monospace"

\* C12: a call that needed the 2D context and did not get one ends in an
\* error (an exception), never in a returned value; for estimateFontSize
\* (which asks for the context once the box height is > 0) and for
\* getImageDataFromImage.
C12_SetupError ==
  (/\ ctx = null
   /\ \/ pc \in {"getImageDataFromImage", "throw"}
      \/ Returned("estimateFontSize") /\ BoxHeight > 0)
    => pc = "throw"

\* the calls of fn that the finished run of processImage has made
CallsOf(fn) == Cardinality({k \in 1..Len(run.calls) : run.calls[k].fn = fn})
\* the calls of fn made for the line at index i of the filtered list
CallsOfFor(fn, i) ==
  Cardinality({k \in 1..Len(run.calls) :
                 run.calls[k].fn = fn /\ run.calls[k].line = i})
\* the lines that survive the filter
KeptLines == NonEmptyLines(LinesOrEmpty(run.data), 1)

\* C13: when a run of processImage has entered the editor step, it has called
\* sampleTextAndBgColor exactly once and estimateFontSize exactly once for
\* each non-empty line, and sampleCardBackgroundColor exactly once.
C13_PipelineCalls ==
  (home.step = "editor" /\ run.pc = "done") =>
    /\ \A i \in 0..(Len(KeptLines) - 1) :
         /\ CallsOfFor("sampleTextAndBgColor", i) = 1
         /\ CallsOfFor("estimateFontSize", i) = 1
    /\ CallsOf("sampleTextAndBgColor") = Len(KeptLines)
    /\ CallsOf("estimateFontSize") = Len(KeptLines)
    /\ CallsOf("sampleCardBackgroundColor") = 1

\* the same function with the same arguments
SameCall(a, b) ==
  /\ a.fn = b.fn /\ a.bbox = b.bbox
  /\ a.textBboxes = b.textBboxes /\ a.colors = b.colors

\* every two calls of the log with the same function and arguments have
\* returned the same result
SameCallSameResult(calls) ==
  \A i, j \in 1..Len(calls) :
    SameCall(calls[i], calls[j]) => calls[i].result = calls[j].result

BorderBg == sampleBorderColor(imageData, bbox)

\* every second column and row of the box clamped to the image, from its
\* top-left corner
StrideTwoCoords ==
  LET left == Max(0, bbox.x0)
      top == Max(0, bbox.y0)
  IN {[x |-> x, y |-> y] :
        x \in {v \in left..(Min(imageData.width, bbox.x1) - 1) : (v - left) % 2 = 0},
        y \in {v \in top..(Min(imageData.height, bbox.y1) - 1) : (v - top) % 2 = 0}}

RECURSIVE SelectAt(_, _, _)
\* the elements of seq at the indices in idx, in order, from index k on
SelectAt(seq, idx, k) ==
  IF k > Len(seq) THEN <<>>
  ELSE (IF k \in idx THEN <<seq[k]>> ELSE <<>>) \o SelectAt(seq, idx, k + 1)

\* the samples whose deltaE to the border background is a number below 20
BelowThreshold(loop) ==
  {k \in 1..Len(loop.pixels) : loop.dists[k] # NaN /\ loop.dists[k] < 20 * LabScale}

\* C15: the interior samples are the pixels at stride 2 from the clamped
\* top-left corner; a sample is in the background cluster iff its deltaE to
\* the border background is strictly below 20, and in the foreground cluster
\* otherwise; the two cluster sizes add up to the number of samples.
C15_ClusterPartition ==
  Returned("sampleTextAndBgColor") =>
    LET borderBg == BorderBg
        loop == InteriorSamples(imageData, bbox, borderBg)
        coords == InteriorCoords(imageData, bbox)
        n == Len(loop.pixels)
        below == BelowThreshold(loop)
    IN borderBg # null =>
         /\ {coords[k] : k \in 1..Len(coords)} = StrideTwoCoords
         /\ n = Cardinality(StrideTwoCoords)
         /\ loop.bgCluster = SelectAt(loop.pixels, below, 1)
         /\ loop.textCluster = SelectAt(loop.pixels, (1..n) \ below, 1)
         /\ Len(loop.bgCluster) + Len(loop.textCluster) = n

\* black samples on a dark border background lie at a deltaE between 0 and
\* 20 and are in the background cluster
C15_Witness ==
  /\ Returned("sampleTextAndBgColor")
  /\ LET borderBg == BorderBg
         loop == InteriorSamples(imageData, bbox, borderBg)
     IN /\ borderBg # null
        /\ Len(loop.textCluster) = 0
        /\ \E k \in 1..Len(loop.pixels) :
             loop.dists[k] # NaN /\ loop.dists[k] > 0 /\ loop.pixels[k] = Black

\* the largest deltaE among the samples whose deltaE is a number; 0 if none
MaxDist(loop) ==
  LET numeric == {loop.dists[k] : k \in {i \in 1..Len(loop.pixels) : loop.dists[i] # NaN}}
  IN IF numeric = {} THEN 0 ELSE CHOOSE d \in numeric : \A e \in numeric : e <= d

RECURSIVE SumDist(_, _, _)
\* the sum of deltaE from cs[i] to the other elements of cs, from j on
SumDist(cs, i, j) ==
  IF j > Len(cs) THEN 0
  ELSE (IF j # i THEN deltaE(rgbToLab(cs[i]), rgbToLab(cs[j])) ELSE 0)
       + SumDist(cs, i, j + 1)

SearchResolution == (199 * FontScale) \div 1048576

\* C17: with at least 3 trimmed characters, a box width > 0 and an oracle
\* whose width does not decrease as the size grows, the size fitByWidth
\* returns has a measured width that does not exceed the box width, and the
\* size one search resolution above it (if within [1,200]) does not fit.
C17_FitByWidth ==
  (/\ Returned("estimateFontSize")
   /\ BoxHeight > 0 /\ BoxWidth > 0 /\ Len(trim(text)) >= 3
   /\ ctx # null /\ ctx.kind # "shrinking")
    => LET size == fitByWidth(ctx, trim(text), BoxWidth, fontFamily, fontWeight)
           above == size + SearchResolution
       IN /\ measureText(ctx, fontWeight, size, fontFamily, trim(text)).width
               <= BoxWidth * FontScale
          /\ \/ above > 200 * FontScale
             \/ measureText(ctx, fontWeight, above, fontFamily, trim(text)).width
                  > BoxWidth * FontScale

\* the characters of the text that are left when the spaces at both ends
\* are taken away
TrimmedLength ==
  LET inked == {k \in 1..Len(text) : text[k] # " "}
  IN IF inked = {} THEN 0
     ELSE (CHOOSE k \in inked : \A j \in inked : j <= k)
          - (CHOOSE k \in inked : \A j \in inked : k <= j) + 1

\* 0.85 x the box height
DefaultSize == (17 * BoxHeight * FontScale) \div 20

\* the size clamped to [0.4 h, 1.5 h]
Clamped(size) ==
  LET low == (2 * BoxHeight * FontScale) \div 5
      high == (3 * BoxHeight * FontScale) \div 2
  IN IF size < low THEN low ELSE IF size > high THEN high ELSE size

\* ascent + descent of the text at the probe size 100, in pixels
RenderedHeight ==
  LET metrics == measureText(ctx, fontWeight, 100 * FontScale, fontFamily, trim(text))
  IN (metrics.actualBoundingBoxAscent + metrics.actualBoundingBoxDescent) \div 100

\* C18: estimateFontSize returns 16 when the box height is <= 0, whatever the
\* text and the oracle; 0.85 h when the trimmed text is empty; the clamped
\* fit by width iff the trimmed text has at least 3 characters and the box
\* width is > 0, and the clamped fit by height otherwise; and 0.85 h when
\* the fit by height finds a rendered height <= 0.
C18_Paths ==
  Returned("estimateFontSize") =>
    /\ BoxHeight <= 0 => ret = 16 * FontScale
    /\ (BoxHeight > 0 /\ ctx # null /\ TrimmedLength = 0) => ret = DefaultSize
    /\ (BoxHeight > 0 /\ ctx # null /\ TrimmedLength >= 3 /\ BoxWidth > 0)
         => ret = Clamped(fitByWidth(ctx, trim(text), BoxWidth, fontFamily, fontWeight))
    /\ (BoxHeight > 0 /\ ctx # null /\ TrimmedLength > 0
        /\ ~(TrimmedLength >= 3 /\ BoxWidth > 0))
         => /\ ret = Clamped(fitByHeight(ctx, trim(text), BoxHeight, fontFamily, fontWeight))
            /\ RenderedHeight <= 0 => ret = DefaultSize

\* a short text whose rendered height is negative: 0.85 h
C18_Witness ==
  /\ Returned("estimateFontSize")
  /\ BoxHeight > 0 /\ ctx # null /\ TrimmedLength \in {1, 2}
  /\ RenderedHeight < 0
  /\ ret = DefaultSize

\* floor(i * n / 200) for the input of the call, in exact arithmetic
ExactIndex(i) == (i * Len(colors)) \div 200

\* the index the call computes: the exact one, or one below it where the
\* product of the doubles comes out below a whole quotient
ComputedIndex(i) == SubsampleIndex(Len(colors), i)

\* what the call must return if it considers the elements at the indices
\* idx[0..199]: each index within the input, the indices increasing, the
\* result the medoid of the elements there (so one of them), and the same at
\* every call
ConsidersIndices(idx) ==
  LET considered == [i \in 1..200 |-> colors[idx[i - 1] + 1]]
  IN /\ \A i \in 0..199 : idx[i] >= 0 /\ idx[i] <= Len(colors) - 1
     /\ \A i \in 0..198 : idx[i] < idx[i + 1]
     /\ ret = medoidColor(considered)
     /\ \E i \in 1..200 : ret = considered[i]
     /\ \A k \in 1..Len(log) : log[k].result = ret

\* C19 as stated: for n > 200 colours medoidColor considers exactly the
\* elements at the indices floor(i * n / 200), i = 0..199 (increasing, within
\* 0..n-1), returns one of them, and returns the same at every call.
C19_ExactIndices ==
  (Returned("medoidColor") /\ Len(colors) > 200) =>
    ConsidersIndices([i \in 0..199 |-> ExactIndex(i)])

\* C19 amended: the indices are Math.floor(i * step) for the double step =
\* n / 200: floor(i * n / 200), or one less where i * n / 200 is a whole
\* number and the product of the doubles is below it.
C19_ComputedIndices ==
  (Returned("medoidColor") /\ Len(colors) > 200) =>
    /\ \A i \in 0..199 :
         \/ ComputedIndex(i) = ExactIndex(i)
         \/ /\ ComputedIndex(i) = ExactIndex(i) - 1
            /\ (i * Len(colors)) % 200 = 0
    /\ ConsidersIndices([i \in 0..199 |-> ComputedIndex(i)])

\* 205 colours, called twice: index 122 is considered in place of 123, which
\* makes the colour of the indices 20..122 the majority
C19_Witness ==
  /\ Returned("medoidColor") /\ Len(log) = 2
  /\ Len(colors) = 205
  /\ ComputedIndex(120) = 122 /\ ExactIndex(120) = 123
  /\ colors[1] # colors[123] /\ colors[123] # colors[124]
  /\ ret = colors[123]

\* C20: every pixel that sampleCardBackgroundColor reads lies at least
\* floor(0.05 x width) columns and floor(0.05 x height) rows from the edges
\* of the image, and in none of the exclusion boxes, boundaries included.
C20_GridPoints ==
  Returned("sampleCardBackgroundColor") =>
    LET marginX == imageData.width \div 20
        marginY == imageData.height \div 20
    IN \A p \in reads :
         /\ marginX <= p.x /\ p.x < imageData.width - marginX
         /\ marginY <= p.y /\ p.y < imageData.height - marginY
         /\ \A k \in 1..Len(textBboxes) :
              ~(/\ textBboxes[k].x0 <= p.x /\ p.x <= textBboxes[k].x1
                /\ textBboxes[k].y0 <= p.y /\ p.y <= textBboxes[k].y1)

\* an image 20 wide with a margin of 1: pixels were read, and the grid point
\* on the right boundary of the exclusion box was not
C20_Witness ==
  /\ Returned("sampleCardBackgroundColor")
  /\ imageData.width = 20 /\ imageData.height = 20
  /\ Len(textBboxes) = 1 /\ textBboxes[1].x1 = 10
  /\ reads # {}
  /\ \E k \in 1..625 :
       /\ GridCoord(imageData, k).x = 10 /\ GridCoord(imageData, k).y = 5
       /\ GridCoord(imageData, k) \notin reads

----------------------------------------------------------------------------
(* Card background: the result *)

\* the grid indices 1..625 whose point lies in the image and in no exclusion
\* box; the point of index k is in column (k - 1) % 25 and row (k - 1) \div 25
ValidGridIndices ==
  {k \in 1..625 :
     LET W == imageData.width
         H == imageData.height
         x == (W \div 20) + (((2 * ((k - 1) % 25) + 1) * (W - 2 * (W \div 20))) \div 50)
         y == (H \div 20) + (((2 * ((k - 1) \div 25) + 1) * (H - 2 * (H \div 20))) \div 50)
     IN /\ 0 <= x /\ x < W /\ 0 <= y /\ y < H
        /\ \A b \in 1..Len(textBboxes) :
             ~(/\ textBboxes[b].x0 <= x /\ x <= textBboxes[b].x1
               /\ textBboxes[b].y0 <= y /\ y <= textBboxes[b].y1)}

\* the colour of the pixel at the grid point of index k
GridSample(k) ==
  LET W == imageData.width
      H == imageData.height
      x == (W \div 20) + (((2 * ((k - 1) % 25) + 1) * (W - 2 * (W \div 20))) \div 50)
      y == (H \div 20) + (((2 * ((k - 1) \div 25) + 1) * (H - 2 * (H \div 20))) \div 50)
      i == (y * W + x) * 4
  IN [r |-> imageData.data[i], g |-> imageData.data[i + 1], b |-> imageData.data[i + 2]]

RECURSIVE SumOfSamples(_, _, _, _, _)
\* the sum of channel ch of the samples at the indices of idx within lo..hi
SumOfSamples(idx, sample, ch, lo, hi) ==
  IF lo > hi THEN 0
  ELSE IF lo = hi THEN (IF lo \in idx THEN sample[lo][ch] ELSE 0)
  ELSE LET mid == (lo + hi) \div 2
       IN SumOfSamples(idx, sample, ch, lo, mid)
            + SumOfSamples(idx, sample, ch, mid + 1, hi)

\* the mean of the values of channel ch at idx, rounded to the nearest
\* integer, a half going up: the m with m - 1/2 <= mean < m + 1/2
RoundedMeans(idx, sample, ch) ==
  LET n == Cardinality(idx)
      sum == SumOfSamples(idx, sample, ch, 1, 625)
  IN {m \in 0..255 : (2 * m - 1) * n <= 2 * sum /\ 2 * sum < (2 * m + 1) * n}

RECURSIVE SamplesInOrder(_, _, _, _)
\* the samples at the indices of idx within lo..hi, in ascending index order
SamplesInOrder(idx, sample, lo, hi) ==
  IF lo > hi THEN <<>>
  ELSE IF lo = hi THEN (IF lo \in idx THEN <<sample[lo]>> ELSE <<>>)
  ELSE LET mid == (lo + hi) \div 2
       IN SamplesInOrder(idx, sample, lo, mid) \o SamplesInOrder(idx, sample, mid + 1, hi)

\* hex is '#' and the three channels of c, two lowercase hex digits each
IsHexOf(hex, c) ==
  LET digits == <<"0", "1", "2", "3", "4", "5", "6", "7",
                  "8", "9", "a", "b", "c", "d", "e", "f">>
      two(v) == <<digits[(v \div 16) + 1], digits[(v % 16) + 1]>>
  IN hex = <<"#">> \o two(c.r) \o two(c.g) \o two(c.b)

\* C21: sampleCardBackgroundColor returns "#ffffff" when no grid point gives
\* a valid sample (every point in an exclusion box, or an image of zero
\* width or height); otherwise it returns the hex string of the per-channel
\* rounded mean of the samples whose deltaE to the medoid of the samples is
\* below 15, or of the medoid itself when no sample is that close.
C21_WhiteOrMeanNearMedoid ==
  Returned("sampleCardBackgroundColor") =>
    LET valid == ValidGridIndices
    IN IF valid = {}
       THEN ret = <<"#", "f", "f", "f", "f", "f", "f">>
       ELSE
         LET sample == [k \in valid |-> GridSample(k)]
             \* the medoid of the samples in the order of the grid, row by row
             medoid == medoidColor(SamplesInOrder(valid, sample, 1, 625))
             close == {k \in valid :
                         deltaE(rgbToLab(medoid), rgbToLab(sample[k])) < 15 * LabScale}
         IN IF close = {}
            THEN IsHexOf(ret, medoid)
            ELSE \E r \in RoundedMeans(close, sample, "r"),
                    g \in RoundedMeans(close, sample, "g"),
                    b \in RoundedMeans(close, sample, "b") :
                   IsHexOf(ret, [r |-> r, g |-> g, b |-> b])

\* an image of zero width and MaxDim rows: no grid point is in it, and the
\* result is white
C21_Witness ==
  /\ Returned("sampleCardBackgroundColor")
  /\ imageData.width = 0 /\ imageData.height = MaxDim
  /\ textBboxes = <<>>
  /\ ValidGridIndices = {}
  /\ ret = <<"#", "f", "f", "f", "f", "f", "f">>

----------------------------------------------------------------------------
(* Overlapping uploads: properties *)

\* C22: whenever the app is in the editor step, detectedTexts was computed
\* from the image that imageUrl holds, also when a second invocation of
\* processImage starts before an earlier one has finished, in whichever order
\* the two complete.
C22_EditorShowsOneImage ==
  home.step = "editor" => textsFrom = home.imageUrl

\* the promise that recognizeCard returned to invocation i settles in this step
Settles(i) ==
  /\ i <= Len(runs) /\ runs[i].promise = "pending"
  /\ runs'[i].promise # "pending"

\* invocation i of processImage ends in this step, in its catch block
Fails(i) ==
  /\ i <= Len(runs) /\ runs[i].pc # "done"
  /\ runs'[i].pc = "done" /\ runs'[i].outcome = "throw"

\* invocation i of processImage ends in this step, past setStep("editor")
Succeeds(i) ==
  /\ i <= Len(runs) /\ runs[i].pc # "done"
  /\ runs'[i].pc = "done" /\ runs'[i].outcome = "return"

\* C23: a worker that recognizeCard created is terminated before the promise
\* of recognizeCard settles, whether recognition resolved or threw; and an
\* invocation of processImage whose recognition or image loading failed
\* leaves the step "upload" and is not one that enters "editor".
C23_WorkerTerminatedAndFailureToUpload ==
  /\ [](\A i \in 1..Len(runs) :
          runs[i].promise # "pending" => runs[i].worker \in {"none", "terminated"})
  /\ [][/\ \A i \in 1..Len(runs') :
            /\ Settles(i) => /\ runs[i].worker \in {"none", "terminated"}
                             /\ runs'[i].worker = runs[i].worker
            /\ Fails(i) => home'.step = "upload"
       /\ (home'.step = "editor" /\ home.step # "editor")
            => \E j \in 1..Len(runs) :
                 /\ Succeeds(j) /\ runs[j].promise = "resolved"
                 /\ runs[j].pc = "loadImage"]_vars

\* recognition threw: the worker was terminated, the promise then rejected,
\* and the invocation ended in the upload step
C23_Witness ==
  \E i \in 1..Len(runs) :
    /\ runs[i].pc = "done" /\ runs[i].outcome = "throw"
    /\ runs[i].worker = "terminated" /\ runs[i].promise = "rejected"
    /\ home.step = "upload"

----------------------------------------------------------------------------
(* CardEditor: properties *)

\* the Fabric canvases on which dispose() has not been called
Undisposed == {c \in 1..Len(editor.canvases) : ~editor.canvases[c].disposed}

\* the image of run e of the effect finishes loading in this step, after the
\* run was cleaned up
LateLoad(e) ==
  /\ e <= Len(editor.effects)
  /\ editor.effects[e].cleaned
  /\ editor.effects[e].img = "loading" /\ editor'.effects[e].img = "loaded"

\* C24: under any sequence of effect runs, cleanups and image loads there is
\* at most one Fabric canvas that has not been disposed, and an image load
\* that completes after its effect was cleaned up creates no canvas and adds
\* no text object.
C24_OneCanvas ==
  /\ [](Cardinality(Undisposed) <= 1)
  /\ [][\A e \in 1..Len(editor'.effects) :
          LateLoad(e) => /\ editor'.canvases = editor.canvases
                         /\ editor'.fabricRef = editor.fabricRef]_vars

\* the image of the first run loaded after that run was cleaned up and a
\* second run had built the canvas with its texts: that canvas is the only
\* one, and is still in fabricRef
C24_Witness ==
  /\ Len(editor.effects) >= 2
  /\ editor.effects[1].cleaned /\ editor.effects[1].img = "loaded"
  /\ ~editor.effects[2].cleaned /\ editor.effects[2].img = "loaded"
  /\ Len(editor.canvases) = 1
  /\ editor.canvases[1].effect = 2 /\ ~editor.canvases[1].disposed
  /\ editor.canvases[1].texts = MaxLines
  /\ editor.fabricRef = 1

====
